---- MODULE Spec2Model ----
(***************************************************************************)
(* Client-side connection/session state machine of the ChatWidget          *)
(* components of luk450r71z/ia_services.                                   *)
(*                                                                         *)
(* Three families of the widget are modelled over one set of variables:    *)
(*   - the reconnecting ChatWidget (src/unnamed/part_002, lines 1292-1485; *)
(*     src/unnamed/part_006 is its Spanish twin), specification SpecR;     *)
(*   - the choice ChatWidgets: src/src/test_client/components/             *)
(*     ChatWidget.vue ("test_client") and the choice+metrics widget of     *)
(*     src/unnamed/part_002, lines 113-446 ("metrics"), specification      *)
(*     SpecC, the variant being fixed when the widget is created; SpecC    *)
(*     also holds their host page, src/src/frontend/pages/ChatUIApp.vue;   *)
(*   - the chatbot ChatWidget (src/src/chatbot/components/chatwidget.vue), *)
(*     specification SpecB.                                                *)
(*                                                                         *)
(* Further specifications restrict or continue these: SpecRAccepting and   *)
(* SpecBAbnormal are fair runs against a server that accepts, or drops,    *)
(* every attempt; SpecRLate starts in a state SpecR reaches; SpecM is the  *)
(* choice+metrics widget with the document events its listeners count;     *)
(* SpecBReadme is the chatbot widget as src/src/chatbot/README.md lists it. *)
(*                                                                         *)
(* Text is a sequence of pieces, a piece being one space or a run of       *)
(* non-space characters, so that trim, join and template concatenation are *)
(* computed and not assumed.  A fixed literal of the source is a           *)
(* one-piece text holding the literal.                                     *)
(*                                                                         *)
(* The browser is the environment: it delivers open, message, error and    *)
(* close events of every WebSocket that was constructed (the handlers are  *)
(* closures over the component and are never detached), and it runs the    *)
(* setTimeout callbacks.  Component methods are steps that may be taken in *)
(* any state of a mounted widget.                                          *)
(***************************************************************************)
EXTENDS Integers, Sequences, FiniteSets, TLC

VARIABLES
    variant,                 \* which ChatWidget source this widget is
    pc,                      \* "created" | "mounted" | "unmounted"
    websocket_url,           \* prop websocket_url: "" | "invalid" | "valid"
    hostBinds,               \* the host page binds :disabled="chatSession.completed"
    disabled,                \* prop disabled
    ws,                      \* this.ws: 0 is null, otherwise a socket id
    readyState,              \* readyState of every socket id; "NONE" = not constructed
    inTask,                  \* socket whose close event follows its error event in the same task
    userInput,               \* this.userInput
    messages,                \* this.messages
    conversationCompleted,   \* this.conversationCompleted
    connectionState,         \* this.connectionState
    reconnectAttempts,       \* this.reconnectAttempts
    timers,                  \* pending setTimeout callbacks of attemptReconnect
    sent,                    \* frames passed to ws.send, in order
    currentAnswerType,       \* this.currentAnswerType
    currentOptions,          \* this.currentOptions
    selectedSingleChoice,    \* this.selectedSingleChoice
    selectedMultipleChoices, \* this.selectedMultipleChoices
    commentText,             \* this.commentText
    userMetrics,             \* this.userMetrics: the four engagement counters
    documentHidden,          \* document.hidden
    isConnected,             \* chatbot widget: this.isConnected
    botPc,                   \* chatbot widget: where its async mounted() is
    pagePc,                  \* ChatUIApp: "none" (not part of the run) | "created" | "mounted"
    pathname,                \* ChatUIApp: window.location.pathname, split at '/'
    pageConnectionState,     \* ChatUIApp: the connectionState ref
    isCompleteHandled,       \* history: an agent_response with is_complete was handled
    socketsAtUnmount,        \* history: sockets constructed when beforeUnmount ran
    openedTo,                \* history: the URLs the sockets were constructed with
    last                     \* history: the handler that ran last, and its arguments

vars == <<variant, pc, websocket_url, hostBinds, disabled, ws, readyState, inTask,
          userInput, messages, conversationCompleted, connectionState,
          reconnectAttempts, timers, sent, currentAnswerType, currentOptions,
          selectedSingleChoice, selectedMultipleChoices, commentText, userMetrics,
          documentHidden, isConnected, botPc, pagePc, pathname, pageConnectionState,
          isCompleteHandled, socketsAtUnmount, openedTo, last>>

connVars == <<ws, readyState, connectionState, reconnectAttempts, timers>>
metricVars == <<userMetrics, documentHidden>>
hostVars == <<pagePc, pathname, pageConnectionState>>
botVars == <<isConnected, botPc>>
choiceVars == <<currentAnswerType, currentOptions, selectedSingleChoice,
                selectedMultipleChoices, commentText>>

----------------------------------------------------------------------------
(* Bounds of the model *)

MaxSockets == 3          \* WebSocket objects constructed in one run
MaxMessages == 3         \* transcript entries in one run of the reconnecting widget
MaxMessagesC == 2        \* transcript entries in one run of a choice widget
MaxMessagesB == 2        \* transcript entries at once in the chatbot widget
MaxTimers == 2           \* reconnect timers pending at once
MaxSent == 2             \* frames sent in one run
MaxAttemptsSeen == 5     \* cap of reconnectAttempts (the code has none)
MaxMetricEvents == 1     \* mousemove and visibilitychange events counted in one run

(* Program constants *)

maxReconnectAttempts == 3
BaseDelay == 2000
DelayCeiling == 8000
\* the permanent set with 401 forgotten
PermanentCodesWithout401 == {4001, 4004, 403}

PermanentCodes == {4001, 4004, 403, 401}

Sockets == 1..MaxSockets
NULL == "null"
UNDEF == "undefined"

\* close codes the environment delivers: normal, abnormal and the permanent ones
CloseCodes == {1000, 1006, 4001, 4004, 403, 401}

----------------------------------------------------------------------------
(* Text *)

IsSpace(c) == c = " "

RECURSIVE TrimStart(_)
TrimStart(s) ==
    IF s = <<>> THEN <<>>
    ELSE IF IsSpace(Head(s)) THEN TrimStart(Tail(s)) ELSE s

RECURSIVE TrimEnd(_)
TrimEnd(s) ==
    IF s = <<>> THEN <<>>
    ELSE IF IsSpace(s[Len(s)]) THEN TrimEnd(SubSeq(s, 1, Len(s) - 1)) ELSE s

\* a trim that strips the leading white space only
TrimStartOnly(s) == TrimStart(s)

\* String.prototype.trim
Trim(s) == TrimEnd(TrimStart(s))

\* a submit that forgets the test of the trimmed input
rejectsNothing(text) == FALSE

\* const message = this.userInput.trim(); if (!message) return;
\* (part_002 lines 1449-1450)
rejectsBlank(text) == Trim(text) = <<>>

\* the texts a user types into the textarea
Inputs == { <<>>, <<" ">>, <<" ", "ok", " ">> }

\* literals of the reconnecting ChatWidget
MsgNoUrl == <<"Error: WebSocket URL not provided">>
MsgClosedByServer == <<"Connection closed by server">>
MsgNotRestored == <<"Could not restore connection">>
MsgConnError == <<"Connection error: ", "SyntaxError">>
MsgEnded == <<"The conversation has ended. No more messages can be sent.">>
MsgNoConnRetry == <<"No connection. Retrying...">>
ErrorPrefix == <<"Error: ">>

Entry(role, content) == [role |-> role, content |-> content]

\* an addMessage that puts the entry first (unshift in place of push)
addMessageUnshift(msgs, role, content) == <<Entry(role, content)>> \o msgs

\* addMessage(role, content): this.messages.push({role, content, ...})
addMessage(msgs, role, content) == Append(msgs, Entry(role, content))

----------------------------------------------------------------------------
(* Sockets *)

Constructed == {s \in Sockets : readyState[s] # "NONE"}
Live == {s \in Sockets : readyState[s] \in {"CONNECTING", "OPEN"}}
NumConstructed == Cardinality(Constructed)

\* ws.close(): CONNECTING or OPEN becomes CLOSING, otherwise nothing happens
CloseSocket(rs, s) ==
    IF rs[s] \in {"CONNECTING", "OPEN"} THEN [rs EXCEPT ![s] = "CLOSING"] ELSE rs

\* userMetrics of data(), part_002 lines 138-144 (sessionStartTime left out)
NoMetrics == [mouseOutsideCount |-> 0, mouseInsideCount |-> 0,
              appHiddenCount |-> 0, appVisibleCount |-> 0]

Emit(name, payload) == [name |-> name, payload |-> payload]

NoArg == <<>>

\* the record kept in `last`: the handler, its socket and close code (0 if none),
\* its argument (the text typed, the frame received), the events it emitted,
\* reconnectAttempts and the length of the transcript as the handler found
\* them, whether it found a selection, and whether an exception left it
Last(op, sock, code, arg, emits) ==
    [op |-> op, sock |-> sock, code |-> code, arg |-> arg, emits |-> emits,
     n0 |-> reconnectAttempts,
     len0 |-> Len(messages),
     sel0 |-> (selectedSingleChoice # NULL \/ selectedMultipleChoices # <<>>),
     threw |-> FALSE]

\* the same record for a handler that an exception left
LastThrew(op, sock, code, arg, emits) ==
    [Last(op, sock, code, arg, emits) EXCEPT !.threw = TRUE]

----------------------------------------------------------------------------
(* Inbound frames.  json = FALSE is a payload JSON.parse rejects.  The      *)
(* optional booleans of data are "true", "false" or UNDEF (absent), its     *)
(* answerType and summary a string or UNDEF, its options None or Some(list). *)

None == <<>>
Some(v) == <<v>>

Data(isComplete, isCurrentState, answerType, options, summary) ==
    [is_complete |-> isComplete, is_current_state |-> isCurrentState,
     answerType |-> answerType, options |-> options, summary |-> summary]

NoData == Data(UNDEF, UNDEF, UNDEF, None, UNDEF)

Frame(type, content, data) == [json |-> TRUE, type |-> type, content |-> content, data |-> data]

Malformed == [json |-> FALSE, type |-> UNDEF, content |-> <<>>, data |-> NoData]

TextHi == <<"Hi">>
SummaryPayload == "{messageCount: 5}"

\* the frames the server of the reconnecting widget sends
FramesR ==
    { Frame("agent_response", TextHi, NoData),
      Frame("agent_response", TextHi, Data("true", UNDEF, UNDEF, None, SummaryPayload)),
      Frame("user_message", TextHi, NoData),
      Frame("ui_config", <<>>, NoData),
      Frame("error", TextHi, NoData),
      Frame("typing_indicator", <<>>, NoData),
      Malformed }

\* JavaScript truthiness of an optional boolean field
Truthy(v) == v = "true"

----------------------------------------------------------------------------
(* The reconnecting ChatWidget: src/unnamed/part_002, lines 1292-1485 *)

\* data(), lines 1305-1315, with the props as the host page passes them
InitR ==
    /\ variant = "reconnecting"
    /\ pc = "created"
    /\ websocket_url \in {"", "invalid", "valid"}
    /\ hostBinds = TRUE
    /\ disabled = FALSE
    /\ ws = 0
    /\ readyState = [s \in Sockets |-> "NONE"]
    /\ inTask = 0
    /\ userInput = <<>>
    /\ messages = <<>>
    /\ conversationCompleted = FALSE
    /\ connectionState = "disconnected"
    /\ reconnectAttempts = 0
    /\ timers = <<>>
    /\ sent = <<>>
    /\ currentAnswerType = NULL
    /\ currentOptions = <<>>
    /\ selectedSingleChoice = NULL
    /\ selectedMultipleChoices = <<>>
    /\ commentText = <<>>
    /\ userMetrics = NoMetrics
    /\ documentHidden = FALSE
    /\ isConnected = FALSE
    /\ botPc = "idle"
    /\ pagePc = "none"
    /\ pathname = <<>>
    /\ pageConnectionState = NULL
    /\ isCompleteHandled = FALSE
    /\ socketsAtUnmount = 0
    /\ openedTo = {}
    /\ last = Last("data", 0, 0, NoArg, <<>>)

\* the bounds of one run
WithinBounds ==
    /\ Len(messages') <= MaxMessages
    /\ Len(timers') <= MaxTimers
    /\ Len(sent') <= MaxSent

MathMin(a, b) == IF a < b THEN a ELSE b

\* an exponential backoff in place of the linear one
ReconnectDelayExponential(n) == MathMin(BaseDelay * (2 ^ (n - 1)), DelayCeiling)

\* the delay attemptReconnect computes once reconnectAttempts is n (line 1401)
ReconnectDelay(n) == MathMin(BaseDelay * n, DelayCeiling)

\* a catch block that leaves the phase as line 1346 set it
phaseLeftConnecting == "connecting"

\* this.connectionState = 'disconnected' of the catch block, line 1392
\* (line 244 of the choice+metrics widget)
phaseAfterThrow == "disconnected"

\* connectWebSocket(), lines 1340-1395, applied to the transcript msgs
connectWebSocket(msgs) ==
    IF websocket_url = ""
    THEN /\ messages' = addMessage(msgs, "system", MsgNoUrl)
         /\ UNCHANGED <<connectionState, ws, readyState, openedTo>>
    ELSE IF websocket_url = "invalid"
    THEN \* new WebSocket(url) throws: the catch block of lines 1390-1394
         /\ connectionState' = phaseAfterThrow
         /\ messages' = addMessage(msgs, "system", MsgConnError)
         /\ UNCHANGED <<ws, readyState, openedTo>>
    ELSE /\ NumConstructed < MaxSockets
         /\ connectionState' = "connecting"
         /\ ws' = NumConstructed + 1
         /\ readyState' = [readyState EXCEPT ![NumConstructed + 1] = "CONNECTING"]
         /\ openedTo' = openedTo \cup {websocket_url}
         /\ messages' = msgs

\* attemptReconnect(), lines 1397-1407: the values it leaves behind
attemptReconnect ==
    /\ reconnectAttempts < MaxAttemptsSeen
    /\ reconnectAttempts' = reconnectAttempts + 1
    /\ connectionState' = "reconnecting"
    /\ timers' = Append(timers, [n |-> reconnectAttempts + 1,
                                  delay |-> ReconnectDelay(reconnectAttempts + 1)])

\* mounted(), lines 1332-1335
mounted ==
    /\ pc = "created"
    /\ pc' = "mounted"
    /\ connectWebSocket(messages)
    /\ last' = Last("mounted", 0, 0, NoArg, <<>>)
    /\ UNCHANGED <<metricVars, botVars, hostVars, variant, websocket_url, hostBinds, disabled, inTask, userInput,
                   conversationCompleted, reconnectAttempts, timers, sent,
                   choiceVars, isCompleteHandled, socketsAtUnmount>>
    /\ WithinBounds

\* the setTimeout callback of attemptReconnect, lines 1404-1406
reconnectTimer(i) ==
    /\ inTask = 0
    /\ i \in 1..Len(timers)
    /\ timers' = SubSeq(timers, 1, i - 1) \o SubSeq(timers, i + 1, Len(timers))
    /\ connectWebSocket(messages)
    /\ last' = Last("reconnectTimer", 0, 0, NoArg, <<>>)
    /\ UNCHANGED <<metricVars, botVars, hostVars, variant, pc, websocket_url, hostBinds, disabled, inTask, userInput,
                   conversationCompleted, reconnectAttempts, sent,
                   choiceVars, isCompleteHandled, socketsAtUnmount>>
    /\ WithinBounds

\* disconnectWebSocket(), lines 1434-1440, called by beforeUnmount(), lines 1336-1338
disconnectWebSocket ==
    /\ IF ws # 0
       THEN readyState' = CloseSocket(readyState, ws) /\ ws' = 0
       ELSE UNCHANGED <<ws, readyState>>
    /\ connectionState' = "disconnected"

beforeUnmount ==
    /\ inTask = 0
    /\ pc = "mounted"
    /\ pc' = "unmounted"
    /\ disconnectWebSocket
    /\ socketsAtUnmount' = NumConstructed
    /\ last' = Last("beforeUnmount", 0, 0, NoArg, <<>>)
    /\ UNCHANGED <<openedTo, metricVars, botVars, hostVars, variant, websocket_url, hostBinds, disabled, inTask, userInput,
                   messages, conversationCompleted, reconnectAttempts, timers, sent,
                   choiceVars, isCompleteHandled>>

\* an open handler that forgets to reset reconnectAttempts
onopenWithoutReset(s) ==
    /\ inTask = 0
    /\ readyState[s] = "CONNECTING"
    /\ readyState' = [readyState EXCEPT ![s] = "OPEN"]
    /\ connectionState' = "connected"
    /\ last' = Last("onopen", s, 0, NoArg, <<>>)
    /\ UNCHANGED <<openedTo, metricVars, botVars, hostVars, variant, pc, websocket_url, hostBinds, disabled, ws, inTask, userInput,
                   messages, conversationCompleted, reconnectAttempts, timers, sent,
                   choiceVars, isCompleteHandled, socketsAtUnmount>>

\* ws.onopen, lines 1352-1356, of socket s
onopen(s) ==
    /\ inTask = 0
    /\ readyState[s] = "CONNECTING"
    /\ readyState' = [readyState EXCEPT ![s] = "OPEN"]
    /\ connectionState' = "connected"
    /\ reconnectAttempts' = 0
    /\ last' = Last("onopen", s, 0, NoArg, <<>>)
    /\ UNCHANGED <<openedTo, metricVars, botVars, hostVars, variant, pc, websocket_url, hostBinds, disabled, ws, inTask, userInput,
                   messages, conversationCompleted, timers, sent,
                   choiceVars, isCompleteHandled, socketsAtUnmount>>

\* a ui-config event that carries only the data field of the message
uiConfigEventDataOnly(data) == Emit("ui-config", data.data)

\* this.$emit('ui-config', data), line 1427
uiConfigEvent(data) == Emit("ui-config", data)

\* handleWebSocketMessage(data), lines 1409-1432, for a frame of socket s.
\* The host page's onConversationComplete sets chatSession.completed, which is
\* the disabled prop when the page binds it (part_002 lines 1718-1721, 1844-1849).
handleWebSocketMessage(s, data) ==
    IF data.type = "agent_response"
    THEN /\ messages' = addMessage(messages, "agent", data.content)
         /\ IF Truthy(data.data.is_complete)
            THEN /\ conversationCompleted' = TRUE
                 /\ isCompleteHandled' = TRUE
                 /\ disabled' = (disabled \/ hostBinds)
                 /\ last' = Last("onmessage", s, 0, data,
                                 <<Emit("conversation-complete", data.data.summary)>>)
            ELSE /\ UNCHANGED <<conversationCompleted, isCompleteHandled, disabled>>
                 /\ last' = Last("onmessage", s, 0, data, <<>>)
    ELSE IF data.type = "user_message"
    THEN /\ messages' = addMessage(messages, "user", data.content)
         /\ UNCHANGED <<conversationCompleted, isCompleteHandled, disabled>>
         /\ last' = Last("onmessage", s, 0, data, <<>>)
    ELSE IF data.type = "ui_config"
    THEN /\ UNCHANGED <<messages, conversationCompleted, isCompleteHandled, disabled>>
         /\ last' = Last("onmessage", s, 0, data, <<uiConfigEvent(data)>>)
    ELSE IF data.type = "error"
    THEN /\ messages' = addMessage(messages, "system", ErrorPrefix \o data.content)
         /\ UNCHANGED <<conversationCompleted, isCompleteHandled, disabled>>
         /\ last' = Last("onmessage", s, 0, data, <<>>)
    ELSE /\ UNCHANGED <<messages, conversationCompleted, isCompleteHandled, disabled>>
         /\ last' = Last("onmessage", s, 0, data, <<>>)

\* ws.onmessage, lines 1358-1365, of socket s: a message event is delivered
\* only while the socket is OPEN
onmessage(s, raw) ==
    /\ inTask = 0
    /\ readyState[s] = "OPEN"
    /\ IF raw.json
       THEN handleWebSocketMessage(s, raw)
       ELSE \* JSON.parse throws, the catch block logs
            /\ UNCHANGED <<messages, conversationCompleted, isCompleteHandled, disabled>>
            /\ last' = Last("onmessage", s, 0, raw, <<>>)
    /\ UNCHANGED <<openedTo, metricVars, botVars, hostVars, variant, pc, websocket_url, hostBinds, connVars, inTask, userInput,
                   sent, choiceVars, socketsAtUnmount>>
    /\ WithinBounds

\* the server starts the closing handshake of socket s: readyState becomes
\* CLOSING, the close event follows in a later task
closingHandshake(s) ==
    /\ inTask = 0
    /\ readyState[s] = "OPEN"
    /\ readyState' = [readyState EXCEPT ![s] = "CLOSING"]
    /\ last' = Last("closingHandshake", s, 0, NoArg, <<>>)
    /\ UNCHANGED <<openedTo, metricVars, botVars, hostVars, variant, pc, websocket_url, hostBinds, disabled, ws, inTask, userInput,
                   messages, conversationCompleted, connectionState, reconnectAttempts,
                   timers, sent, choiceVars, isCompleteHandled, socketsAtUnmount>>

\* ws.onerror, lines 1385-1388, of socket s: the connection failed, the socket
\* is CLOSED and its close event is fired next, in the same task
onerror(s) ==
    /\ inTask = 0
    /\ readyState[s] \in {"CONNECTING", "OPEN", "CLOSING"}
    /\ readyState' = [readyState EXCEPT ![s] = "CLOSED"]
    /\ inTask' = s
    /\ connectionState' = "disconnected"
    /\ last' = Last("onerror", s, 0, NoArg, <<>>)
    /\ UNCHANGED <<openedTo, metricVars, botVars, hostVars, variant, pc, websocket_url, hostBinds, disabled, ws, userInput,
                   messages, conversationCompleted, reconnectAttempts,
                   timers, sent, choiceVars, isCompleteHandled, socketsAtUnmount>>

\* the retry test off by one: one more retry once the ceiling is reached
closeBranchOffByOne(code) ==
    IF code \in PermanentCodes THEN "permanent"
    ELSE IF ~conversationCompleted /\ reconnectAttempts <= maxReconnectAttempts THEN "reconnect"
    ELSE IF reconnectAttempts >= maxReconnectAttempts THEN "exhausted"
    ELSE "none"

\* the branch ws.onclose takes for event.code = code, lines 1372-1382
closeBranch(code) ==
    IF code \in PermanentCodes THEN "permanent"
    ELSE IF ~conversationCompleted /\ reconnectAttempts < maxReconnectAttempts THEN "reconnect"
    ELSE IF reconnectAttempts >= maxReconnectAttempts THEN "exhausted"
    ELSE "none"

\* ws.onclose, lines 1367-1383, of socket s with event.code = code.  After an
\* error event the code is 1006 (abnormal closure).
onclose(s, code) ==
    /\ \/ inTask = s /\ code = 1006
       \/ inTask = 0 /\ readyState[s] \in {"CONNECTING", "OPEN", "CLOSING"}
    /\ inTask' = 0
    /\ readyState' = [readyState EXCEPT ![s] = "CLOSED"]
    /\ IF closeBranch(code) = "permanent"
       THEN /\ connectionState' = "disconnected"
            /\ messages' = addMessage(messages, "system", MsgClosedByServer)
            /\ UNCHANGED <<reconnectAttempts, timers>>
       ELSE IF closeBranch(code) = "reconnect"
       THEN /\ attemptReconnect
            /\ UNCHANGED messages
       ELSE IF closeBranch(code) = "exhausted"
       THEN /\ connectionState' = "disconnected"
            /\ messages' = addMessage(messages, "system", MsgNotRestored)
            /\ UNCHANGED <<reconnectAttempts, timers>>
       ELSE /\ connectionState' = "disconnected"
            /\ UNCHANGED <<messages, reconnectAttempts, timers>>
    /\ last' = Last("onclose", s, code, NoArg, <<>>)
    /\ UNCHANGED <<openedTo, metricVars, botVars, hostVars, variant, pc, websocket_url, hostBinds, disabled, ws, userInput,
                   conversationCompleted, sent, choiceVars, isCompleteHandled,
                   socketsAtUnmount>>
    /\ WithinBounds

\* the frame handleSendMessage passes to ws.send: JSON.stringify({ content })
OutFrame(content, afterComplete) ==
    [content |-> content, afterComplete |-> afterComplete, metrics |-> <<>>]

\* the send condition without the readyState test
canSendByPhaseOnly == connectionState = "connected" /\ ws # 0

\* the send condition of line 1454:
\* connectionState === 'connected' && this.ws?.readyState === WebSocket.OPEN
canSend == connectionState = "connected" /\ ws # 0 /\ readyState[ws] = "OPEN"

\* handleSendMessage(), lines 1442-1463, with text in the textarea (v-model userInput)
handleSendMessage(text) ==
    /\ inTask = 0
    /\ pc = "mounted"
    /\ IF disabled \/ conversationCompleted
       THEN /\ messages' = addMessage(messages, "system", MsgEnded)
            /\ userInput' = <<>>
            /\ last' = Last("handleSendMessage", 0, 0, text, <<>>)
            /\ UNCHANGED <<connectionState, reconnectAttempts, timers, sent>>
       ELSE IF rejectsBlank(text)
       THEN /\ userInput' = text
            /\ last' = Last("handleSendMessage", 0, 0, text, <<>>)
            /\ UNCHANGED <<messages, connectionState, reconnectAttempts, timers, sent>>
       ELSE IF canSend
       THEN /\ messages' = addMessage(messages, "user", Trim(text))
            /\ sent' = Append(sent, OutFrame(Trim(text), isCompleteHandled))
            /\ userInput' = <<>>
            /\ last' = Last("handleSendMessage", ws, 0, text, <<Emit("message-sent", Trim(text))>>)
            /\ UNCHANGED <<connectionState, reconnectAttempts, timers>>
       ELSE /\ messages' = addMessage(addMessage(messages, "user", Trim(text)),
                                      "system", MsgNoConnRetry)
            /\ attemptReconnect
            /\ userInput' = <<>>
            /\ last' = Last("handleSendMessage", 0, 0, text, <<>>)
            /\ UNCHANGED sent
    /\ UNCHANGED <<openedTo, metricVars, botVars, hostVars, variant, pc, websocket_url, hostBinds, disabled, ws, readyState, inTask,
                   conversationCompleted, choiceVars, isCompleteHandled, socketsAtUnmount>>
    /\ WithinBounds

NextR ==
    \/ mounted
    \/ beforeUnmount
    \/ \E i \in 1..MaxTimers : reconnectTimer(i)
    \/ \E s \in Sockets : onopen(s)
    \/ \E s \in Sockets, raw \in FramesR : onmessage(s, raw)
    \/ \E s \in Sockets : closingHandshake(s)
    \/ \E s \in Sockets : onerror(s)
    \/ \E s \in Sockets, code \in CloseCodes : onclose(s, code)
    \/ \E text \in Inputs : handleSendMessage(text)

SpecR == InitR /\ [][NextR]_vars

\* The reconnecting widget with a server that accepts every connection
\* attempt: a socket that is CONNECTING gets no error or close event, and
\* opens.  The setTimeout callbacks run, and the close event of a failed
\* socket follows its error event.
onerrorAccepted(s) == readyState[s] # "CONNECTING" /\ onerror(s)

oncloseAccepted(s, code) == readyState[s] # "CONNECTING" /\ onclose(s, code)

NextRAccepting ==
    \/ mounted
    \/ beforeUnmount
    \/ \E i \in 1..MaxTimers : reconnectTimer(i)
    \/ \E s \in Sockets : onopen(s)
    \/ \E s \in Sockets, raw \in FramesR : onmessage(s, raw)
    \/ \E s \in Sockets : closingHandshake(s)
    \/ \E s \in Sockets : onerrorAccepted(s)
    \/ \E s \in Sockets, code \in CloseCodes : oncloseAccepted(s, code)
    \/ \E text \in Inputs : handleSendMessage(text)

FairRAccepting ==
    /\ WF_vars(\E i \in 1..MaxTimers : reconnectTimer(i))
    /\ WF_vars(\E s \in Sockets : onopen(s))
    /\ WF_vars(\E s \in Sockets : inTask = s /\ oncloseAccepted(s, 1006))

SpecRAccepting == InitR /\ [][NextRAccepting]_vars /\ FairRAccepting

\* The reconnecting widget late in a session.  Mounted with a valid endpoint,
\* the user sent 'ok' before the first socket had opened (lines 1457-1459: two
\* entries, a retry timer); the timer constructed a second socket (lines
\* 1404-1406) and then the first socket opened; the second socket, and the one
\* constructed by the retry that followed its close, closed with code 1006, so
\* that the first socket is open, reconnectAttempts is 2 and the third retry
\* is pending.  readyState holds the sockets rs, this.ws being w.
StaleSocketRun(rs, w) ==
    /\ variant = "reconnecting"
    /\ pc = "mounted"
    /\ websocket_url = "valid"
    /\ hostBinds = TRUE
    /\ disabled = FALSE
    /\ ws = w
    /\ readyState = rs
    /\ inTask = 0
    /\ userInput = <<>>
    /\ messages = <<Entry("user", <<"ok">>), Entry("system", MsgNoConnRetry)>>
    /\ conversationCompleted = FALSE
    /\ connectionState = "reconnecting"
    /\ reconnectAttempts = 2
    /\ timers = <<[n |-> 2, delay |-> ReconnectDelay(2)]>>
    /\ sent = <<>>
    /\ currentAnswerType = NULL
    /\ currentOptions = <<>>
    /\ selectedSingleChoice = NULL
    /\ selectedMultipleChoices = <<>>
    /\ commentText = <<>>
    /\ userMetrics = NoMetrics
    /\ documentHidden = FALSE
    /\ isConnected = FALSE
    /\ botPc = "idle"
    /\ pagePc = "none"
    /\ pathname = <<>>
    /\ pageConnectionState = NULL
    /\ isCompleteHandled = FALSE
    /\ socketsAtUnmount = 0
    /\ openedTo = {"valid"}

\* the state as SpecR reaches it: the sockets 2 and 3 are CLOSED
StaleSocketRunReached ==
    StaleSocketRun([s \in Sockets |-> IF s = 1 THEN "OPEN"
                                      ELSE IF s \in {2, 3} THEN "CLOSED" ELSE "NONE"], 3)

\* the same state with the two closed sockets, which get no further event,
\* counted as one
InitRLate ==
    /\ StaleSocketRun([s \in Sockets |-> IF s = 1 THEN "OPEN"
                                         ELSE IF s = 2 THEN "CLOSED" ELSE "NONE"], 2)
    /\ last = Last("onclose", 2, 1006, NoArg, <<>>)

NextRLate ==
    \/ beforeUnmount
    \/ \E i \in 1..MaxTimers : reconnectTimer(i)
    \/ \E s \in Sockets : onopen(s)
    \/ \E s \in Sockets, raw \in FramesR : onmessage(s, raw)
    \/ \E s \in Sockets : closingHandshake(s)
    \/ \E s \in Sockets : onerror(s)
    \/ \E s \in Sockets, code \in CloseCodes : onclose(s, code)
    \/ \E text \in Inputs : handleSendMessage(text)

SpecRLate == InitRLate /\ [][NextRLate]_vars

----------------------------------------------------------------------------
(* The choice ChatWidgets: src/src/test_client/components/ChatWidget.vue    *)
(* (variant "test_client") and the choice+metrics widget, part_002 lines    *)
(* 113-446 (variant "metrics").  Line numbers are those of test_client      *)
(* unless part_002 is named.  The setTimeout of handleWebSocketMessage, which *)
(* only emits 'close-widget' after 3 s, changes no widget state and is left *)
(* out.                                                                     *)

OptYes == <<"Yes">>
OptNo == <<"No">>
OptA == <<"A">>
Comment == <<"comment">>        \* the value of the metrics widget's Comment checkbox
TextHello == <<"hello">>
Separator == <<",", " ">>        \* ', '

\* the texts a user types into the comment textarea
CommentTexts == { <<>>, <<" ">>, <<" ", "hello", " ">> }

MsgConnClosed == <<"Connection closed">>
MsgSessionEnded == <<"This chat session has ended.">>
MsgConnErrorPlain == <<"Connection error">>
MsgNoConn == <<"No connection available">>

\* the frames the server of a choice widget sends
FramesC ==
    { Frame("agent_response", TextHi, NoData),
      Frame("agent_response", TextHi,
            Data(UNDEF, UNDEF, "single_choice", Some(<<OptYes, OptNo>>), UNDEF)),
      Frame("agent_response", TextHi,
            Data(UNDEF, "false", "multiple_choice", Some(<<OptA>>), UNDEF)),
      Frame("agent_response", TextHi,
            Data(UNDEF, "true", "single_choice", Some(<<OptYes, OptNo>>), UNDEF)),
      Frame("agent_response", TextHi, Data(UNDEF, "true", UNDEF, None, UNDEF)),
      Frame("agent_response", TextHi, Data("true", UNDEF, UNDEF, None, SummaryPayload)),
      Frame("agent_response", TextHi,
            Data("true", UNDEF, "single_choice", Some(<<OptYes, OptNo>>), SummaryPayload)),
      Frame("user_message", TextHi, NoData),
      Frame("ui_config", <<>>, NoData),
      Frame("error", TextHi, NoData),
      Frame("typing_indicator", <<>>, NoData),
      Malformed }

\* the transcript and the frames sent stay within the bounds
WithinBoundsC ==
    /\ Len(messages') <= MaxMessagesC
    /\ Len(sent') <= MaxSent

\* Array.prototype.join
RECURSIVE Join(_, _)
Join(items, sep) ==
    IF items = <<>> THEN <<>>
    ELSE IF Len(items) = 1 THEN items[1]
    ELSE items[1] \o sep \o Join(Tail(items), sep)

\* Array.prototype.filter, keeping the items of a set
RECURSIVE Filter(_, _)
Filter(items, keep) ==
    IF items = <<>> THEN <<>>
    ELSE IF Head(items) \in keep THEN <<Head(items)>> \o Filter(Tail(items), keep)
    ELSE Filter(Tail(items), keep)

Items(seq) == {seq[i] : i \in 1..Len(seq)}

\* the paths the page is opened with: '/', '/abc' and '/abc/x', split at '/'
Paths == { <<"", "">>, <<"", "abc">>, <<"", "abc", "x">> }

\* pathname.split('/').filter(Boolean), ChatUIApp.vue line 106
RECURSIVE FilterBoolean(_)
FilterBoolean(parts) ==
    IF parts = <<>> THEN <<>>
    ELSE IF Head(parts) = "" THEN FilterBoolean(Tail(parts))
    ELSE <<Head(parts)>> \o FilterBoolean(Tail(parts))

\* a getWebSocketUrl that forgets the test of idSession and builds
\* '.../start/undefined'
getWebSocketUrlUnchecked(path) == [threw |-> FALSE]

\* getWebSocketUrl(), ChatUIApp.vue lines 105-112: it throws when the path
\* holds no id_session, and returns the endpoint of the session otherwise
getWebSocketUrl(path) == [threw |-> FilterBoolean(path) = <<>>]

\* data(), lines 105-117 (part_002 lines 126-146).  A widget hosted by
\* ChatUIApp (hostBinds) gets its props from chatSession (ChatUIApp.vue lines
\* 64-70): websocketUrl '' and completed false; a widget mounted on its own
\* gets any websocket_url and no disabled binding.
InitC ==
    /\ variant \in {"test_client", "metrics"}
    /\ pc = "created"
    /\ hostBinds \in BOOLEAN
    /\ IF hostBinds
       THEN /\ pagePc = "created"
            /\ pathname \in Paths
            /\ pageConnectionState = "connecting"
            /\ websocket_url = ""
       ELSE /\ pagePc = "none"
            /\ pathname = <<>>
            /\ pageConnectionState = NULL
            /\ websocket_url \in {"", "invalid", "valid"}
    /\ disabled = FALSE
    /\ ws = 0
    /\ readyState = [s \in Sockets |-> "NONE"]
    /\ inTask = 0
    /\ userInput = <<>>
    /\ messages = <<>>
    /\ conversationCompleted = FALSE
    /\ connectionState = "disconnected"
    /\ reconnectAttempts = 0
    /\ timers = <<>>
    /\ sent = <<>>
    /\ currentAnswerType = NULL
    /\ currentOptions = <<>>
    /\ selectedSingleChoice = NULL
    /\ selectedMultipleChoices = <<>>
    /\ commentText = <<>>
    /\ userMetrics = NoMetrics
    /\ documentHidden = FALSE
    /\ isConnected = FALSE
    /\ botPc = "idle"
    /\ isCompleteHandled = FALSE
    /\ socketsAtUnmount = 0
    /\ openedTo = {}
    /\ last = Last("data", 0, 0, NoArg, <<>>)

\* onMounted of ChatUIApp, lines 138-147: the endpoint of a session either is
\* one the WebSocket constructor accepts or one it rejects
onMountedPage ==
    /\ pagePc = "created"
    /\ pagePc' = "mounted"
    /\ IF getWebSocketUrl(pathname).threw
       THEN /\ pageConnectionState' = "error"
            /\ UNCHANGED websocket_url
       ELSE /\ websocket_url' \in {"valid", "invalid"}
            /\ UNCHANGED pageConnectionState
    /\ last' = Last("onMountedPage", 0, 0, NoArg, <<>>)
    /\ UNCHANGED <<openedTo, metricVars, botVars, variant, pc, pathname, hostBinds, disabled, connVars, inTask,
                   userInput, messages, conversationCompleted, sent, choiceVars,
                   isCompleteHandled, socketsAtUnmount>>

\* the page's connectionState after the page handled the events emitted:
\* onConnectionStateChange, lines 132-135, and onConversationComplete, lines
\* 115-120
RECURSIVE PageAfter(_, _)
PageAfter(state, emits) ==
    IF emits = <<>> THEN state
    ELSE IF Head(emits).name = "connection-state-change"
    THEN PageAfter(Head(emits).payload, Tail(emits))
    ELSE IF Head(emits).name = "conversation-complete"
    THEN PageAfter("completed", Tail(emits))
    ELSE PageAfter(state, Tail(emits))

\* the listeners ChatUIApp puts on the widget, lines 31-41, run inside $emit
\* (Vue drops the events of an unmounted component)
hostHandles ==
    pageConnectionState' = IF pagePc = "mounted" /\ pc # "unmounted"
                           THEN PageAfter(pageConnectionState, last'.emits)
                           ELSE pageConnectionState

\* the ChatWidget is rendered: v-if="chatSession.websocketUrl", lines 31-32
widgetRendered == pagePc = "none" \/ (pagePc = "mounted" /\ websocket_url # "")

StateChange(state) == Emit("connection-state-change", state)

\* connectWebSocket(), lines 159-213 (part_002 lines 195-247), called by op
connectWebSocketC(op) ==
    IF websocket_url = ""
    THEN /\ messages' = addMessage(messages, "system", MsgNoUrl)
         /\ last' = Last(op, 0, 0, NoArg, <<StateChange("error")>>)
         /\ UNCHANGED <<connectionState, ws, readyState, openedTo>>
    ELSE IF websocket_url = "invalid"
    THEN \* new WebSocket(url) throws: the catch block
         /\ connectionState' = phaseAfterThrow
         /\ messages' = addMessage(messages, "system",
                            IF variant = "metrics" THEN MsgConnErrorPlain ELSE MsgConnError)
         /\ last' = Last(op, 0, 0, NoArg, <<StateChange("connecting"), StateChange("error")>>)
         /\ readyState' = IF ws # 0 THEN CloseSocket(readyState, ws) ELSE readyState
         /\ UNCHANGED <<ws, openedTo>>
    ELSE /\ NumConstructed < MaxSockets
         /\ connectionState' = "connecting"
         /\ ws' = NumConstructed + 1
         /\ readyState' = [(IF ws # 0 THEN CloseSocket(readyState, ws) ELSE readyState)
                              EXCEPT ![NumConstructed + 1] = "CONNECTING"]
         /\ last' = Last(op, 0, 0, NoArg, <<StateChange("connecting")>>)
         /\ openedTo' = openedTo \cup {websocket_url}
         /\ UNCHANGED messages

\* mounted(), lines 146-154
mountedC ==
    /\ pc = "created"
    /\ widgetRendered
    /\ pc' = "mounted"
    /\ IF websocket_url # ""
       THEN connectWebSocketC("mounted")
       ELSE /\ last' = Last("mounted", 0, 0, NoArg, <<StateChange("error")>>)
            /\ UNCHANGED <<connectionState, ws, readyState, messages, openedTo>>
    /\ hostHandles
    /\ UNCHANGED <<metricVars, botVars, pagePc, pathname, variant, websocket_url, hostBinds, disabled, inTask, userInput,
                   conversationCompleted, reconnectAttempts, timers, sent,
                   choiceVars, isCompleteHandled, socketsAtUnmount>>
    /\ WithinBoundsC

\* beforeUnmount(), lines 155-157, and disconnectWebSocket(), lines 259-265
beforeUnmountC ==
    /\ inTask = 0
    /\ pc = "mounted"
    /\ pc' = "unmounted"
    /\ disconnectWebSocket
    /\ socketsAtUnmount' = NumConstructed
    /\ last' = Last("beforeUnmount", 0, 0, NoArg, <<>>)
    /\ UNCHANGED <<openedTo, metricVars, botVars, hostVars, variant, websocket_url, hostBinds, disabled, inTask, userInput,
                   messages, conversationCompleted, reconnectAttempts, timers, sent,
                   choiceVars, isCompleteHandled>>

\* ws.onopen, lines 178-182, of socket s
onopenC(s) ==
    /\ inTask = 0
    /\ readyState[s] = "CONNECTING"
    /\ readyState' = [readyState EXCEPT ![s] = "OPEN"]
    /\ connectionState' = "connected"
    /\ last' = Last("onopen", s, 0, NoArg, <<StateChange("connected")>>)
    /\ hostHandles
    /\ UNCHANGED <<openedTo, metricVars, botVars, pagePc, pathname, variant, pc, websocket_url, hostBinds, disabled, ws, inTask,
                   userInput, messages, conversationCompleted, reconnectAttempts, timers,
                   sent, choiceVars, isCompleteHandled, socketsAtUnmount>>

\* ws.onerror, lines 200-205 (part_002 lines 236-240, which append no entry)
onerrorC(s) ==
    /\ inTask = 0
    /\ readyState[s] \in {"CONNECTING", "OPEN", "CLOSING"}
    /\ readyState' = [readyState EXCEPT ![s] = "CLOSED"]
    /\ inTask' = s
    /\ connectionState' = "disconnected"
    /\ messages' = IF variant = "metrics" THEN messages
                   ELSE addMessage(messages, "system", MsgConnErrorPlain)
    /\ last' = Last("onerror", s, 0, NoArg, <<StateChange("disconnected")>>)
    /\ hostHandles
    /\ UNCHANGED <<openedTo, metricVars, botVars, pagePc, pathname, variant, pc, websocket_url, hostBinds, disabled, ws, userInput,
                   conversationCompleted, reconnectAttempts, timers, sent,
                   choiceVars, isCompleteHandled, socketsAtUnmount>>
    /\ WithinBoundsC

\* ws.onclose, lines 193-198 (part_002 lines 229-234)
oncloseC(s, code) ==
    /\ \/ inTask = s /\ code = 1006
       \/ inTask = 0 /\ readyState[s] \in {"CONNECTING", "OPEN", "CLOSING"}
    /\ inTask' = 0
    /\ readyState' = [readyState EXCEPT ![s] = "CLOSED"]
    /\ connectionState' = "disconnected"
    /\ messages' = addMessage(messages, "system",
                       IF variant = "metrics" THEN MsgSessionEnded ELSE MsgConnClosed)
    /\ last' = Last("onclose", s, code, NoArg, <<StateChange("disconnected")>>)
    /\ hostHandles
    /\ UNCHANGED <<openedTo, metricVars, botVars, pagePc, pathname, variant, pc, websocket_url, hostBinds, disabled, ws, userInput,
                   conversationCompleted, reconnectAttempts, timers, sent,
                   choiceVars, isCompleteHandled, socketsAtUnmount>>
    /\ WithinBoundsC

\* a handler that keeps the options shown when the frame has none
OptionsOrKept(options) == IF options = None THEN currentOptions ELSE options[1]

\* `options || []`
OptionsOrEmpty(options) == IF options = None THEN <<>> ELSE options[1]

\* an absent answerType leaves currentAnswerType undefined, which the template
\* and sendSelection treat as null
AnswerTypeOf(answerType) == IF answerType = UNDEF THEN NULL ELSE answerType

\* a handler that never treats a frame as a replay of the current state
isCurrentStateIgnored(data) == FALSE

\* const isCurrentState = data.data?.is_current_state, line 221 (part_002 line 254)
isCurrentState(data) == Truthy(data.data.is_current_state)

\* the agent_response branch of handleWebSocketMessage, lines 218-246, of
\* test_client: transcript, answer mode, selections, completed flag
agentResponseTC(s, data) ==
    /\ messages' = IF ~isCurrentState(data)
                   THEN addMessage(messages, "agent", data.content)
                   ELSE messages
    /\ currentAnswerType' = AnswerTypeOf(data.data.answerType)
    /\ currentOptions' = OptionsOrEmpty(data.data.options)
    /\ selectedSingleChoice' = NULL
    /\ selectedMultipleChoices' = <<>>
    /\ UNCHANGED commentText
    /\ IF Truthy(data.data.is_complete)
       THEN /\ conversationCompleted' = TRUE
            /\ isCompleteHandled' = TRUE
            /\ disabled' = (disabled \/ hostBinds)
            /\ last' = Last("onmessage", s, 0, data,
                            <<Emit("conversation-complete", data.data.summary)>>)
       ELSE /\ UNCHANGED <<conversationCompleted, isCompleteHandled, disabled>>
            /\ last' = Last("onmessage", s, 0, data, <<>>)

\* the agent_response branch of handleWebSocketMessage, part_002 lines 252-280, of
\* the choice+metrics widget, which keeps no completed flag of its own
agentResponseCM(s, data) ==
    /\ messages' = IF ~isCurrentState(data)
                   THEN addMessage(messages, "agent", data.content)
                   ELSE messages
    /\ currentAnswerType' = AnswerTypeOf(data.data.answerType)
    /\ currentOptions' = OptionsOrEmpty(data.data.options)
    /\ selectedSingleChoice' = NULL
    /\ selectedMultipleChoices' = <<>>
    /\ commentText' = <<>>
    /\ UNCHANGED conversationCompleted
    /\ IF Truthy(data.data.is_complete)
       THEN /\ isCompleteHandled' = TRUE
            /\ disabled' = (disabled \/ hostBinds)
            /\ last' = Last("onmessage", s, 0, data,
                            <<Emit("conversation-complete", data.data.summary)>>)
       ELSE /\ UNCHANGED <<isCompleteHandled, disabled>>
            /\ last' = Last("onmessage", s, 0, data, <<>>)

\* handleWebSocketMessage(data), lines 215-257 (part_002 lines 249-290)
handleWebSocketMessageC(s, data) ==
    IF data.type = "agent_response"
    THEN IF variant = "metrics" THEN agentResponseCM(s, data) ELSE agentResponseTC(s, data)
    ELSE IF data.type = "user_message"
    THEN /\ messages' = addMessage(messages, "user", data.content)
         /\ last' = Last("onmessage", s, 0, data, <<>>)
         /\ UNCHANGED <<choiceVars, conversationCompleted, isCompleteHandled, disabled>>
    ELSE IF data.type = "ui_config"
    THEN /\ last' = Last("onmessage", s, 0, data, <<Emit("ui-config", data)>>)
         /\ UNCHANGED <<messages, choiceVars, conversationCompleted, isCompleteHandled,
                        disabled>>
    ELSE IF data.type = "error"
    THEN /\ messages' = addMessage(messages, "system", ErrorPrefix \o data.content)
         /\ last' = Last("onmessage", s, 0, data, <<>>)
         /\ UNCHANGED <<choiceVars, conversationCompleted, isCompleteHandled, disabled>>
    ELSE /\ last' = Last("onmessage", s, 0, data, <<>>)
         /\ UNCHANGED <<messages, choiceVars, conversationCompleted, isCompleteHandled,
                        disabled>>

\* ws.onmessage, lines 184-191, of socket s
onmessageC(s, raw) ==
    /\ inTask = 0
    /\ readyState[s] = "OPEN"
    /\ IF raw.json
       THEN handleWebSocketMessageC(s, raw)
       ELSE /\ last' = Last("onmessage", s, 0, raw, <<>>)
            /\ UNCHANGED <<messages, choiceVars, conversationCompleted, isCompleteHandled,
                           disabled>>
    /\ hostHandles
    /\ UNCHANGED <<openedTo, metricVars, botVars, pagePc, pathname, variant, pc, websocket_url, hostBinds, connVars, inTask,
                   userInput, sent, socketsAtUnmount>>
    /\ WithinBoundsC

\* a frame whose metrics are those of a fresh session
OutFrameCFreshMetrics(content) ==
    [content |-> content, afterComplete |-> isCompleteHandled,
     metrics |-> IF variant = "metrics" THEN <<NoMetrics>> ELSE <<>>]

\* the frame passed to ws.send: { content } in test_client, { content, metrics }
\* in the choice+metrics widget (createMessageWithMetrics, part_002 lines 401-406)
OutFrameC(content) ==
    [content |-> content, afterComplete |-> isCompleteHandled,
     metrics |-> IF variant = "metrics" THEN <<userMetrics>> ELSE <<>>]

\* handleSendMessage(), lines 267-287 (part_002 lines 300-324, which test only
\* the disabled prop)
handleSendMessageC(text) ==
    /\ inTask = 0
    /\ pc = "mounted"
    /\ IF disabled \/ (variant = "test_client" /\ conversationCompleted)
       THEN /\ messages' = addMessage(messages, "system", MsgEnded)
            /\ userInput' = <<>>
            /\ last' = Last("handleSendMessage", 0, 0, text, <<>>)
            /\ UNCHANGED sent
       ELSE IF rejectsBlank(text)
       THEN /\ userInput' = text
            /\ last' = Last("handleSendMessage", 0, 0, text, <<>>)
            /\ UNCHANGED <<messages, sent>>
       ELSE IF canSend
       THEN /\ messages' = addMessage(messages, "user", Trim(text))
            /\ sent' = Append(sent, OutFrameC(Trim(text)))
            /\ userInput' = <<>>
            /\ last' = Last("handleSendMessage", ws, 0, text,
                            <<Emit("message-sent", Trim(text))>>)
       ELSE /\ messages' = addMessage(addMessage(messages, "user", Trim(text)),
                                      "system", MsgNoConn)
            /\ userInput' = <<>>
            /\ last' = Last("handleSendMessage", 0, 0, text, <<>>)
            /\ UNCHANGED sent
    /\ hostHandles
    /\ UNCHANGED <<openedTo, metricVars, botVars, pagePc, pathname, variant, pc, websocket_url, hostBinds, disabled, connVars,
                   inTask, conversationCompleted, choiceVars, isCompleteHandled,
                   socketsAtUnmount>>
    /\ WithinBoundsC

\* the option buttons and checkboxes are rendered (template lines 17, 19, 41)
OptionsShown(answerType) ==
    currentAnswerType = answerType /\ Len(currentOptions) > 0

\* selectSingleChoice(option), lines 308-310, from an option button
selectSingleChoice(option) ==
    /\ inTask = 0
    /\ pc = "mounted"
    /\ OptionsShown("single_choice")
    /\ option \in Items(currentOptions)
    /\ selectedSingleChoice' = option
    /\ last' = Last("selectSingleChoice", 0, 0, option, <<>>)
    /\ UNCHANGED <<openedTo, metricVars, botVars, hostVars, variant, pc, websocket_url, hostBinds, disabled, connVars,
                   inTask, userInput, messages, conversationCompleted, sent,
                   currentAnswerType, currentOptions, selectedMultipleChoices, commentText,
                   isCompleteHandled, socketsAtUnmount>>

\* a checkbox bound by v-model to selectedMultipleChoices is clicked (template
\* lines 49-53; the Comment checkbox of part_002 lines 59-65): a checked value
\* is appended, an unchecked one removed
toggleMultipleChoice(value) ==
    /\ inTask = 0
    /\ pc = "mounted"
    /\ OptionsShown("multiple_choice")
    /\ \/ value \in Items(currentOptions)
       \/ variant = "metrics" /\ value = Comment
    /\ selectedMultipleChoices' =
          IF value \in Items(selectedMultipleChoices)
          THEN Filter(selectedMultipleChoices, Items(selectedMultipleChoices) \ {value})
          ELSE Append(selectedMultipleChoices, value)
    /\ last' = Last("toggleMultipleChoice", 0, 0, value, <<>>)
    /\ UNCHANGED <<openedTo, metricVars, botVars, hostVars, variant, pc, websocket_url, hostBinds, disabled, connVars,
                   inTask, userInput, messages, conversationCompleted, sent,
                   currentAnswerType, currentOptions, selectedSingleChoice, commentText,
                   isCompleteHandled, socketsAtUnmount>>

\* the comment textarea bound by v-model to commentText (part_002 lines 70-77),
\* rendered while 'comment' is selected
typeComment(text) ==
    /\ inTask = 0
    /\ pc = "mounted"
    /\ variant = "metrics"
    /\ OptionsShown("multiple_choice")
    /\ Comment \in Items(selectedMultipleChoices)
    /\ commentText' = text
    /\ commentText' # commentText
    /\ last' = Last("typeComment", 0, 0, text, <<>>)
    /\ UNCHANGED <<openedTo, metricVars, botVars, hostVars, variant, pc, websocket_url, hostBinds, disabled, connVars,
                   inTask, userInput, messages, conversationCompleted, sent,
                   currentAnswerType, currentOptions, selectedSingleChoice,
                   selectedMultipleChoices, isCompleteHandled, socketsAtUnmount>>

\* the content sendSelection computes in test_client, lines 313-319
selectionContentTC ==
    IF currentAnswerType = "single_choice" /\ selectedSingleChoice # NULL
    THEN selectedSingleChoice
    ELSE IF currentAnswerType = "multiple_choice" /\ Len(selectedMultipleChoices) > 0
    THEN Join(selectedMultipleChoices, Separator)
    ELSE <<>>

\* the map of part_002 lines 355-360: 'comment' becomes the trimmed comment
RECURSIVE MapComment(_)
MapComment(choices) ==
    IF choices = <<>> THEN <<>>
    ELSE << IF Head(choices) = Comment /\ Trim(commentText) # <<>>
            THEN Trim(commentText) ELSE Head(choices) >> \o MapComment(Tail(choices))

\* a filter that keeps every choice, the bare 'comment' included
FilterCommentKeepsAll(choices) == choices

\* the filter of part_002 line 360: choice !== 'comment' || this.commentText.trim()
RECURSIVE FilterComment(_)
FilterComment(choices) ==
    IF choices = <<>> THEN <<>>
    ELSE IF Head(choices) # Comment \/ Trim(commentText) # <<>>
    THEN <<Head(choices)>> \o FilterComment(Tail(choices))
    ELSE FilterComment(Tail(choices))

\* the content sendSelection computes in the choice+metrics widget, part_002
\* lines 349-363
selectionContentCM ==
    IF currentAnswerType = "single_choice" /\ selectedSingleChoice # NULL
    THEN selectedSingleChoice
    ELSE IF currentAnswerType = "multiple_choice" /\ Len(selectedMultipleChoices) > 0
    THEN Join(FilterComment(MapComment(selectedMultipleChoices)), Separator)
    ELSE <<>>

\* the computed property hasValidSelection of the choice+metrics widget,
\* part_002 lines 162-177, which enables the send button of the choices: both
\* branches of the callback of some() return true
hasValidSelection ==
    IF currentAnswerType = "single_choice"
    THEN selectedSingleChoice # NULL
    ELSE IF currentAnswerType = "multiple_choice"
    THEN \E i \in 1..Len(selectedMultipleChoices) :
            IF selectedMultipleChoices[i] = Comment /\ Len(Trim(commentText)) > 0
            THEN TRUE
            ELSE TRUE
    ELSE FALSE

\* a reset that leaves the comment as it was typed
commentTextKept == commentText

\* this.commentText = '', part_002 line 381; test_client has no comment field
commentTextAfterSend == IF variant = "metrics" THEN <<>> ELSE commentText

\* sendSelection(), lines 312-336 (part_002 lines 348-385)
sendSelection ==
    /\ inTask = 0
    /\ pc = "mounted"
    /\ LET content == IF variant = "metrics" THEN selectionContentCM ELSE selectionContentTC
       IN  IF content # <<>>
           THEN /\ messages' = addMessage(messages, "user", content)
                /\ IF canSend
                   THEN /\ sent' = Append(sent, OutFrameC(content))
                        /\ last' = Last("sendSelection", ws, 0, content,
                                        <<Emit("message-sent", content)>>)
                   ELSE /\ UNCHANGED sent
                        /\ last' = Last("sendSelection", 0, 0, content, <<>>)
                /\ selectedSingleChoice' = NULL
                /\ selectedMultipleChoices' = <<>>
                /\ commentText' = commentTextAfterSend
                /\ currentAnswerType' = NULL
                /\ currentOptions' = <<>>
           ELSE /\ last' = Last("sendSelection", 0, 0, content, <<>>)
                /\ UNCHANGED <<messages, sent, choiceVars>>
    /\ hostHandles
    /\ UNCHANGED <<openedTo, metricVars, botVars, pagePc, pathname, variant, pc, websocket_url, hostBinds, disabled, connVars,
                   inTask, userInput, conversationCompleted, isCompleteHandled,
                   socketsAtUnmount>>
    /\ WithinBoundsC

\* the sum of the four engagement counters
MetricEvents(m) ==
    m.mouseOutsideCount + m.mouseInsideCount + m.appHiddenCount + m.appVisibleCount

\* the document events counted stay within the bound
WithinBoundsM == MetricEvents(userMetrics') <= MaxMetricEvents

\* the listeners of setupFocusDetection, part_002 lines 408-443, are on the
\* document: mounted() adds them (line 189) and nothing removes them
listening == variant = "metrics" /\ pc \in {"mounted", "unmounted"}

\* a listener that counts only the moves outside the widget
countMoveOutsideOnly(m, inside) ==
    IF inside THEN m ELSE [m EXCEPT !.mouseOutsideCount = @ + 1]

\* the two branches of the mousemove listener, part_002 lines 412-427
countMove(m, inside) ==
    IF inside THEN [m EXCEPT !.mouseInsideCount = @ + 1]
    ELSE [m EXCEPT !.mouseOutsideCount = @ + 1]

\* the mousemove listener, part_002 lines 410-429; inside is
\* chatContainer.contains(event.target).  The root element of an unmounted
\* widget is detached and contains no target of the document.
mousemove(inside) ==
    /\ inTask = 0
    /\ listening
    /\ pc = "unmounted" => ~inside
    /\ userMetrics' = countMove(userMetrics, inside)
    /\ last' = Last("mousemove", 0, 0, <<IF inside THEN "inside" ELSE "outside">>,
                    <<Emit(IF inside THEN "mouse-inside" ELSE "mouse-outside", "pointer")>>)
    /\ hostHandles
    /\ UNCHANGED <<openedTo, documentHidden, botVars, pagePc, pathname, variant, pc, websocket_url,
                   hostBinds, disabled, connVars, inTask, userInput, messages,
                   conversationCompleted, sent, choiceVars, isCompleteHandled,
                   socketsAtUnmount>>
    /\ WithinBoundsM

\* the visibilitychange listener, part_002 lines 432-442: the event follows a
\* change of document.hidden
visibilitychange ==
    /\ inTask = 0
    /\ listening
    /\ documentHidden' = ~documentHidden
    /\ userMetrics' = IF documentHidden'
                      THEN [userMetrics EXCEPT !.appHiddenCount = @ + 1]
                      ELSE [userMetrics EXCEPT !.appVisibleCount = @ + 1]
    /\ last' = Last("visibilitychange", 0, 0,
                    <<IF documentHidden' THEN "hidden" ELSE "visible">>,
                    <<Emit(IF documentHidden' THEN "app-hidden" ELSE "app-visible", NULL)>>)
    /\ hostHandles
    /\ UNCHANGED <<openedTo, botVars, pagePc, pathname, variant, pc, websocket_url,
                   hostBinds, disabled, connVars, inTask, userInput, messages,
                   conversationCompleted, sent, choiceVars, isCompleteHandled,
                   socketsAtUnmount>>
    /\ WithinBoundsM

NextC ==
    \/ onMountedPage
    \/ mountedC
    \/ beforeUnmountC
    \/ \E s \in Sockets : onopenC(s)
    \/ \E s \in Sockets, raw \in FramesC : onmessageC(s, raw)
    \/ \E s \in Sockets : closingHandshake(s)
    \/ \E s \in Sockets : onerrorC(s)
    \/ \E s \in Sockets, code \in CloseCodes : oncloseC(s, code)
    \/ \E text \in Inputs : handleSendMessageC(text)
    \/ \E option \in {OptYes, OptNo, OptA} : selectSingleChoice(option)
    \/ \E value \in {OptYes, OptNo, OptA, Comment} : toggleMultipleChoice(value)
    \/ \E text \in CommentTexts : typeComment(text)
    \/ sendSelection

SpecC == InitC /\ [][NextC]_vars

\* The choice+metrics widget with its document listeners, mounted on its own
\* with an endpoint the WebSocket constructor accepts.  SpecC is this widget
\* without the document events, which change userMetrics only.
InitM ==
    /\ InitC
    /\ variant = "metrics"
    /\ ~hostBinds
    /\ websocket_url = "valid"

\* the frames and the close codes of its server: a question of each answer
\* type and the last one; a normal and an abnormal close
FramesM ==
    { Frame("agent_response", TextHi,
            Data(UNDEF, UNDEF, "single_choice", Some(<<OptYes, OptNo>>), UNDEF)),
      Frame("agent_response", TextHi,
            Data(UNDEF, "false", "multiple_choice", Some(<<OptA>>), UNDEF)),
      Frame("agent_response", TextHi, Data("true", UNDEF, UNDEF, None, SummaryPayload)) }
CloseCodesM == {1000, 1006}

NextM ==
    \/ mountedC
    \/ beforeUnmountC
    \/ \E s \in Sockets : onopenC(s)
    \/ \E s \in Sockets, raw \in FramesM : onmessageC(s, raw)
    \/ \E s \in Sockets : closingHandshake(s)
    \/ \E s \in Sockets : onerrorC(s)
    \/ \E s \in Sockets, code \in CloseCodesM : oncloseC(s, code)
    \/ \E text \in Inputs : handleSendMessageC(text)
    \/ \E option \in {OptYes, OptNo, OptA} : selectSingleChoice(option)
    \/ \E value \in {OptYes, OptNo, OptA, Comment} : toggleMultipleChoice(value)
    \/ \E text \in CommentTexts : typeComment(text)
    \/ sendSelection
    \/ \E inside \in BOOLEAN : mousemove(inside)
    \/ visibilitychange

SpecM == InitM /\ [][NextM]_vars

----------------------------------------------------------------------------
(* The chatbot ChatWidget: src/src/chatbot/components/chatwidget.vue.  Its  *)
(* data field websocketUrl is the variable websocket_url: "" until the      *)
(* service names an endpoint.  Its host page, test.vue, is not part of the  *)
(* model.                                                                   *)

ReconnectDelayB == 3000

MsgServiceError == <<"Error al iniciar servicio conversacional: ", "Error">>
MsgServiceNotStarted ==
    <<"No se pudo iniciar el servicio conversacional. Por favor, recarga la pagina.">>
MsgInitError == <<"Error al inicializar: ", "SyntaxError">>
MsgDenied == <<"Error: Acceso denegado al servidor">>
MsgServerConnError == <<"Error de conexion con el servidor">>
MsgFinished == <<"La conversacion ha finalizado. No se pueden enviar mas mensajes.">>

\* the outcomes of startConversationalService(), lines 90-130: the service
\* names an endpoint, answers without one, or the request fails
ServiceOutcomes == {"endpoint", "no_endpoint", "failed"}

\* the close events a socket of the chatbot widget gets: code and wasClean
CloseEventsB ==
    { [code |-> 1000, wasClean |-> TRUE], [code |-> 1006, wasClean |-> FALSE],
      [code |-> 403, wasClean |-> TRUE], [code |-> 403, wasClean |-> FALSE] }

\* the transcript, the timers and the frames sent stay within the bounds
WithinBoundsB ==
    /\ Len(messages') <= MaxMessagesB
    /\ Len(timers') <= MaxTimers
    /\ Len(sent') <= MaxSent

\* data(), lines 62-72 (README.md lines 101-109, which have no websocketUrl)
dataB ==
    /\ pc = "created"
    /\ websocket_url = ""
    /\ hostBinds = FALSE
    /\ disabled = FALSE
    /\ ws = 0
    /\ readyState = [s \in Sockets |-> "NONE"]
    /\ inTask = 0
    /\ userInput = <<>>
    /\ messages = <<>>
    /\ conversationCompleted = FALSE
    /\ connectionState = NULL
    /\ reconnectAttempts = 0
    /\ timers = <<>>
    /\ sent = <<>>
    /\ currentAnswerType = NULL
    /\ currentOptions = <<>>
    /\ selectedSingleChoice = NULL
    /\ selectedMultipleChoices = <<>>
    /\ commentText = <<>>
    /\ userMetrics = NoMetrics
    /\ documentHidden = FALSE
    /\ isConnected = FALSE
    /\ botPc = "idle"
    /\ pagePc = "none"
    /\ pathname = <<>>
    /\ pageConnectionState = NULL
    /\ isCompleteHandled = FALSE
    /\ socketsAtUnmount = 0
    /\ openedTo = {}
    /\ last = Last("data", 0, 0, NoArg, <<>>)

InitB == variant = "chatbot" /\ dataB

\* what the chatbot widget leaves alone in every handler
restB == <<metricVars, hostVars, variant, hostBinds, disabled, connectionState,
           reconnectAttempts, choiceVars, socketsAtUnmount>>

\* mounted(), lines 73-77, up to its first await
mountedB ==
    /\ pc = "created"
    /\ pc' = "mounted"
    /\ botPc' = "starting"
    /\ last' = Last("mounted", 0, 0, NoArg, <<>>)
    /\ UNCHANGED <<openedTo, restB, websocket_url, ws, readyState, inTask, userInput, messages,
                   conversationCompleted, timers, sent, isConnected, isCompleteHandled>>

\* startConversationalService() settles, lines 90-130, and mounted() goes on,
\* lines 77-84
serviceSettled(outcome) ==
    /\ inTask = 0
    /\ botPc = "starting"
    /\ IF outcome = "failed"
       THEN /\ messages' = addMessage(addMessage(messages, "system", MsgServiceError),
                                      "system", MsgServiceNotStarted)
            /\ botPc' = "done"
            /\ UNCHANGED websocket_url
       ELSE /\ websocket_url' = IF outcome = "endpoint" THEN "valid" ELSE websocket_url
            /\ botPc' = "delaying"
            /\ UNCHANGED messages
    /\ last' = Last("serviceSettled", 0, 0, outcome, <<>>)
    /\ UNCHANGED <<openedTo, restB, pc, ws, readyState, inTask, userInput, conversationCompleted,
                   timers, sent, isConnected, isCompleteHandled>>
    /\ WithinBoundsB

\* the sockets new WebSocket can return: one not yet constructed, or the id of
\* one that is CLOSED, a socket that gets no further event.  The widget has no
\* limit of its own on the sockets it constructs.
FreeSockets == {s \in Sockets : readyState[s] \in {"NONE", "CLOSED"}}

\* connectWebSocket(), lines 131-197: new WebSocket('') throws
connectWebSocketB ==
    IF websocket_url = ""
    THEN /\ isConnected' = FALSE
         /\ messages' = addMessage(messages, "system", MsgInitError)
         /\ UNCHANGED <<ws, readyState, openedTo>>
    ELSE /\ FreeSockets # {}
         /\ LET s == CHOOSE f \in FreeSockets : \A g \in FreeSockets : f <= g
            IN  /\ ws' = s
                /\ readyState' = [readyState EXCEPT ![s] = "CONNECTING"]
         /\ openedTo' = openedTo \cup {websocket_url}
         /\ UNCHANGED <<isConnected, messages>>

\* the 1000 ms of mounted() have passed, lines 80-81
delayElapsed ==
    /\ inTask = 0
    /\ botPc = "delaying"
    /\ botPc' = "done"
    /\ connectWebSocketB
    /\ last' = Last("delayElapsed", 0, 0, NoArg, <<>>)
    /\ UNCHANGED <<restB, pc, websocket_url, inTask, userInput, conversationCompleted,
                   timers, sent, isCompleteHandled>>
    /\ WithinBoundsB

\* the setTimeout callback of ws.onclose, lines 179-182
reconnectTimerB(i) ==
    /\ inTask = 0
    /\ i \in 1..Len(timers)
    /\ timers' = SubSeq(timers, 1, i - 1) \o SubSeq(timers, i + 1, Len(timers))
    /\ connectWebSocketB
    /\ last' = Last("reconnectTimer", 0, 0, NoArg, <<>>)
    /\ UNCHANGED <<restB, pc, botPc, websocket_url, inTask, userInput,
                   conversationCompleted, sent, isCompleteHandled>>
    /\ WithinBoundsB

\* beforeUnmount(), lines 86-88, and disconnectWebSocket(), lines 199-204
beforeUnmountB ==
    /\ inTask = 0
    /\ pc = "mounted"
    /\ pc' = "unmounted"
    /\ IF ws # 0
       THEN readyState' = CloseSocket(readyState, ws) /\ ws' = 0
       ELSE UNCHANGED <<ws, readyState>>
    /\ last' = Last("beforeUnmount", 0, 0, NoArg, <<>>)
    /\ UNCHANGED <<openedTo, metricVars, hostVars, variant, hostBinds, disabled, connectionState,
                   reconnectAttempts, choiceVars, botPc, websocket_url, inTask, userInput,
                   messages, conversationCompleted, timers, sent, isConnected,
                   isCompleteHandled>>
    /\ socketsAtUnmount' = NumConstructed

\* ws.onopen, lines 138-141
onopenB(s) ==
    /\ inTask = 0
    /\ readyState[s] = "CONNECTING"
    /\ readyState' = [readyState EXCEPT ![s] = "OPEN"]
    /\ isConnected' = TRUE
    /\ last' = Last("onopen", s, 0, NoArg, <<>>)
    /\ UNCHANGED <<openedTo, restB, pc, botPc, websocket_url, ws, inTask, userInput, messages,
                   conversationCompleted, timers, sent, isCompleteHandled>>

\* ws.onmessage, lines 143-168: JSON.parse stands outside any try block
onmessageB(s, raw) ==
    /\ inTask = 0
    /\ readyState[s] = "OPEN"
    /\ IF ~raw.json
       THEN /\ last' = LastThrew("onmessage", s, 0, raw, <<>>)
            /\ UNCHANGED <<messages, conversationCompleted, isCompleteHandled>>
       ELSE IF raw.type = "agent_response"
       THEN /\ messages' = addMessage(messages, "agent", raw.content)
            /\ IF Truthy(raw.data.is_complete)
               THEN /\ conversationCompleted' = TRUE
                    /\ isCompleteHandled' = TRUE
                    /\ last' = Last("onmessage", s, 0, raw,
                                    <<Emit("conversation-complete", raw.data.summary)>>)
               ELSE /\ last' = Last("onmessage", s, 0, raw, <<>>)
                    /\ UNCHANGED <<conversationCompleted, isCompleteHandled>>
       ELSE IF raw.type = "error"
       THEN /\ messages' = addMessage(messages, "system", ErrorPrefix \o raw.content)
            /\ last' = Last("onmessage", s, 0, raw, <<>>)
            /\ UNCHANGED <<conversationCompleted, isCompleteHandled>>
       ELSE \* typing_indicator is logged, any other type falls through
            /\ last' = Last("onmessage", s, 0, raw, <<>>)
            /\ UNCHANGED <<messages, conversationCompleted, isCompleteHandled>>
    /\ UNCHANGED <<openedTo, restB, pc, botPc, websocket_url, ws, readyState, inTask, userInput,
                   timers, sent, isConnected>>
    /\ WithinBoundsB

\* ws.onerror, lines 186-190; the close event follows in the same task
onerrorB(s) ==
    /\ inTask = 0
    /\ readyState[s] \in {"CONNECTING", "OPEN", "CLOSING"}
    /\ readyState' = [readyState EXCEPT ![s] = "CLOSED"]
    /\ inTask' = s
    /\ isConnected' = FALSE
    /\ messages' = addMessage(messages, "system", MsgServerConnError)
    /\ last' = Last("onerror", s, 0, NoArg, <<>>)
    /\ UNCHANGED <<openedTo, restB, pc, botPc, websocket_url, ws, userInput, conversationCompleted,
                   timers, sent, isCompleteHandled>>
    /\ WithinBoundsB

\* ws.onclose, lines 170-184
oncloseB(s, event) ==
    /\ \/ inTask = s /\ event.code = 1006
       \/ inTask = 0 /\ readyState[s] \in {"CONNECTING", "OPEN", "CLOSING"}
    /\ inTask' = 0
    /\ readyState' = [readyState EXCEPT ![s] = "CLOSED"]
    /\ isConnected' = FALSE
    /\ IF event.code = 403
       THEN /\ messages' = addMessage(messages, "system", MsgDenied)
            /\ UNCHANGED timers
       ELSE IF ~event.wasClean
       THEN /\ timers' = Append(timers, [n |-> 0, delay |-> ReconnectDelayB])
            /\ UNCHANGED messages
       ELSE UNCHANGED <<messages, timers>>
    /\ last' = Last("onclose", s, event.code, event, <<>>)
    /\ UNCHANGED <<openedTo, restB, pc, botPc, websocket_url, ws, userInput, conversationCompleted,
                   sent, isCompleteHandled>>
    /\ WithinBoundsB

\* sendMessage(), lines 206-238, called as op with text in the textarea.
\* ws.send throws on a null or CONNECTING socket and discards the frame on a
\* CLOSING or CLOSED one.
sendMessageBody(op, text) ==
    IF conversationCompleted
    THEN /\ messages' = addMessage(messages, "system", MsgFinished)
         /\ userInput' = <<>>
         /\ last' = Last(op, 0, 0, text, <<>>)
         /\ UNCHANGED sent
    ELSE IF Trim(text) # <<>> /\ isConnected
    THEN /\ messages' = addMessage(messages, "user", Trim(text))
         /\ IF ws = 0 \/ readyState[IF ws = 0 THEN 1 ELSE ws] = "CONNECTING"
            THEN /\ userInput' = text
                 /\ last' = LastThrew(op, ws, 0, text, <<>>)
                 /\ UNCHANGED sent
            ELSE /\ sent' = IF readyState[ws] = "OPEN"
                            THEN Append(sent, OutFrame(Trim(text), isCompleteHandled))
                            ELSE sent
                 /\ userInput' = <<>>
                 /\ last' = Last(op, ws, 0, text, <<Emit("message-sent", Trim(text))>>)
    ELSE /\ userInput' = text
         /\ last' = Last(op, 0, 0, text, <<>>)
         /\ UNCHANGED <<messages, sent>>

\* sendMessage() called on the component
sendMessage(text) ==
    /\ inTask = 0
    /\ pc = "mounted"
    /\ sendMessageBody("sendMessage", text)
    /\ UNCHANGED <<openedTo, restB, pc, botPc, websocket_url, ws, readyState, inTask,
                   conversationCompleted, timers, isConnected, isCompleteHandled>>
    /\ WithinBoundsB

\* handleButtonClick(), lines 249-256, and handleEnterKey(), lines 240-247
handleButtonClick(text) ==
    /\ inTask = 0
    /\ pc = "mounted"
    /\ IF ~conversationCompleted
       THEN sendMessageBody("handleButtonClick", text)
       ELSE /\ userInput' = text
            /\ last' = Last("handleButtonClick", 0, 0, text, <<>>)
            /\ UNCHANGED <<messages, sent>>
    /\ UNCHANGED <<openedTo, restB, pc, botPc, websocket_url, ws, readyState, inTask,
                   conversationCompleted, timers, isConnected, isCompleteHandled>>
    /\ WithinBoundsB

\* clearChat(), lines 278-280
clearChat ==
    /\ inTask = 0
    /\ pc = "mounted"
    /\ messages' = <<>>
    /\ last' = Last("clearChat", 0, 0, NoArg, <<>>)
    /\ UNCHANGED <<openedTo, restB, pc, botPc, websocket_url, ws, readyState, inTask, userInput,
                   conversationCompleted, timers, sent, isConnected, isCompleteHandled>>

NextB ==
    \/ mountedB
    \/ \E outcome \in ServiceOutcomes : serviceSettled(outcome)
    \/ delayElapsed
    \/ \E i \in 1..MaxTimers : reconnectTimerB(i)
    \/ beforeUnmountB
    \/ \E s \in Sockets : onopenB(s)
    \/ \E s \in Sockets, raw \in FramesR : onmessageB(s, raw)
    \/ \E s \in Sockets : closingHandshake(s)
    \/ \E s \in Sockets : onerrorB(s)
    \/ \E s \in Sockets, event \in CloseEventsB : oncloseB(s, event)
    \/ \E text \in Inputs : sendMessage(text)
    \/ \E text \in Inputs : handleButtonClick(text)
    \/ clearChat

SpecB == InitB /\ [][NextB]_vars

\* The chatbot widget with a server that ends every connection attempt by an
\* abnormal close (code 1006, wasClean false), lines 170-184.  The timers run,
\* the awaits of mounted() settle, and every socket gets its close event.
AbnormalClose == [code |-> 1006, wasClean |-> FALSE]

NextBAbnormal ==
    \/ mountedB
    \/ \E outcome \in ServiceOutcomes : serviceSettled(outcome)
    \/ delayElapsed
    \/ \E i \in 1..MaxTimers : reconnectTimerB(i)
    \/ beforeUnmountB
    \/ \E s \in Sockets : onopenB(s)
    \/ \E s \in Sockets, raw \in FramesR : onmessageB(s, raw)
    \/ \E s \in Sockets : closingHandshake(s)
    \/ \E s \in Sockets : onerrorB(s)
    \/ \E s \in Sockets : oncloseB(s, AbnormalClose)
    \/ \E text \in Inputs : sendMessage(text)
    \/ \E text \in Inputs : handleButtonClick(text)
    \/ clearChat

FairBAbnormal ==
    /\ WF_vars(\E outcome \in ServiceOutcomes : serviceSettled(outcome))
    /\ WF_vars(delayElapsed)
    /\ WF_vars(\E i \in 1..MaxTimers : reconnectTimerB(i))
    /\ WF_vars(\E s \in Sockets : oncloseB(s, AbnormalClose))

SpecBAbnormal == InitB /\ [][NextBAbnormal]_vars /\ FairBAbnormal

----------------------------------------------------------------------------
(* The chatbot ChatWidget as src/src/chatbot/README.md lists it, lines       *)
(* 41-406 (variant "chatbot_readme"): connectWebSocket takes the URL as its *)
(* argument wsUrl and the widget keeps it in no field.  Its onopen,         *)
(* onerror, onclose, disconnectWebSocket, sendMessage, handleButtonClick    *)
(* and clearChat are those of chatwidget.vue, line for line.                *)

EndpointNamed == "endpoint"      \* data.websocket_endpoint
MsgNoEndpoint == <<"Error: No se pudo obtener el endpoint WebSocket del servicio">>
MsgNoServiceType == <<"Error: No se pudo determinar el tipo de servicio. ", "Error">>

\* the outcomes of startConversationalService(), README.md lines 138-220: the
\* service names an endpoint, with or without a welcome message, answers
\* without an endpoint, the request fails, or the service type is not found
ServiceOutcomesReadme == {"endpoint", "welcome", "no_endpoint", "failed", "no_type"}

\* the frames of the server, the type 'system' of README.md lines 282-284 included
FramesReadme == FramesR \cup {Frame("system", TextHi, NoData)}

\* connectWebSocket(wsUrl), README.md lines 251-320, applied to the transcript
\* msgs.  new WebSocket(undefined) parses 'undefined' against the URL of the
\* page: a browser that requires a ws: or wss: URL throws a SyntaxError, one
\* that maps http: to ws: constructs a socket to <page>/undefined.
connectWebSocketReadme(msgs, wsUrl, throws) ==
    IF throws
    THEN /\ isConnected' = FALSE
         /\ messages' = addMessage(msgs, "system", MsgInitError)
         /\ UNCHANGED <<ws, readyState, openedTo>>
    ELSE /\ FreeSockets # {}
         /\ LET s == CHOOSE f \in FreeSockets : \A g \in FreeSockets : f <= g
            IN  /\ ws' = s
                /\ readyState' = [readyState EXCEPT ![s] = "CONNECTING"]
         /\ openedTo' = openedTo \cup {wsUrl}
         /\ messages' = msgs
         /\ UNCHANGED isConnected

\* startConversationalService() settles, README.md lines 138-220, and mounted()
\* goes on, lines 129-132
serviceSettledReadme(outcome) ==
    /\ inTask = 0
    /\ botPc = "starting"
    /\ botPc' = "done"
    /\ IF outcome = "endpoint"
       THEN connectWebSocketReadme(messages, EndpointNamed, FALSE)
       ELSE IF outcome = "welcome"
       THEN connectWebSocketReadme(addMessage(messages, "agent", TextHi),
                                   EndpointNamed, FALSE)
       ELSE /\ messages' =
                  IF outcome = "no_endpoint"
                  THEN addMessage(messages, "system", MsgNoEndpoint)
                  ELSE addMessage(addMessage(messages, "system",
                                       IF outcome = "failed" THEN MsgServiceError
                                       ELSE MsgNoServiceType),
                                  "system", MsgServiceNotStarted)
            /\ UNCHANGED <<ws, readyState, openedTo, isConnected>>
    /\ last' = Last("serviceSettled", 0, 0, outcome, <<>>)
    /\ UNCHANGED <<restB, pc, websocket_url, inTask, userInput, conversationCompleted,
                   timers, sent, isCompleteHandled>>
    /\ WithinBoundsB

\* the setTimeout callback of ws.onclose, README.md lines 302-305: it calls
\* this.connectWebSocket() without the URL, so that wsUrl is undefined
reconnectTimerReadme(i, throws) ==
    /\ inTask = 0
    /\ i \in 1..Len(timers)
    /\ timers' = SubSeq(timers, 1, i - 1) \o SubSeq(timers, i + 1, Len(timers))
    /\ connectWebSocketReadme(messages, UNDEF, throws)
    /\ last' = Last("reconnectTimer", 0, 0, <<UNDEF>>, <<>>)
    /\ UNCHANGED <<restB, pc, botPc, websocket_url, inTask, userInput,
                   conversationCompleted, sent, isCompleteHandled>>
    /\ WithinBoundsB

\* ws.onmessage, README.md lines 263-291: that of chatwidget.vue with the
\* type 'system', whose content becomes a system entry
onmessageReadme(s, raw) ==
    /\ inTask = 0
    /\ readyState[s] = "OPEN"
    /\ IF ~raw.json
       THEN /\ last' = LastThrew("onmessage", s, 0, raw, <<>>)
            /\ UNCHANGED <<messages, conversationCompleted, isCompleteHandled>>
       ELSE IF raw.type = "agent_response"
       THEN /\ messages' = addMessage(messages, "agent", raw.content)
            /\ IF Truthy(raw.data.is_complete)
               THEN /\ conversationCompleted' = TRUE
                    /\ isCompleteHandled' = TRUE
                    /\ last' = Last("onmessage", s, 0, raw,
                                    <<Emit("conversation-complete", raw.data.summary)>>)
               ELSE /\ last' = Last("onmessage", s, 0, raw, <<>>)
                    /\ UNCHANGED <<conversationCompleted, isCompleteHandled>>
       ELSE IF raw.type = "system"
       THEN /\ messages' = addMessage(messages, "system", raw.content)
            /\ last' = Last("onmessage", s, 0, raw, <<>>)
            /\ UNCHANGED <<conversationCompleted, isCompleteHandled>>
       ELSE IF raw.type = "error"
       THEN /\ messages' = addMessage(messages, "system", ErrorPrefix \o raw.content)
            /\ last' = Last("onmessage", s, 0, raw, <<>>)
            /\ UNCHANGED <<conversationCompleted, isCompleteHandled>>
       ELSE /\ last' = Last("onmessage", s, 0, raw, <<>>)
            /\ UNCHANGED <<messages, conversationCompleted, isCompleteHandled>>
    /\ UNCHANGED <<openedTo, restB, pc, botPc, websocket_url, ws, readyState, inTask,
                   userInput, timers, sent, isConnected>>
    /\ WithinBoundsB

InitBReadme == variant = "chatbot_readme" /\ dataB

NextBReadme ==
    \/ mountedB
    \/ \E outcome \in ServiceOutcomesReadme : serviceSettledReadme(outcome)
    \/ \E i \in 1..MaxTimers, throws \in BOOLEAN : reconnectTimerReadme(i, throws)
    \/ beforeUnmountB
    \/ \E s \in Sockets : onopenB(s)
    \/ \E s \in Sockets, raw \in FramesReadme : onmessageReadme(s, raw)
    \/ \E s \in Sockets : closingHandshake(s)
    \/ \E s \in Sockets : onerrorB(s)
    \/ \E s \in Sockets, event \in CloseEventsB : oncloseB(s, event)
    \/ \E text \in Inputs : sendMessage(text)
    \/ \E text \in Inputs : handleButtonClick(text)
    \/ clearChat

SpecBReadme == InitBReadme /\ [][NextBReadme]_vars

----------------------------------------------------------------------------
(* Properties of the reconnecting ChatWidget, checked under SpecR, and of   *)
(* the choice ChatWidgets, checked under SpecC                              *)

\* the transcript grew by exactly one entry, of the given role
AppendedOne(role) ==
    /\ Len(messages') = Len(messages) + 1
    /\ SubSeq(messages', 1, Len(messages)) = messages
    /\ messages'[Len(messages')].role = role

LastEntry == messages[Len(messages)]

\* C2 (no double sockets): after any connectWebSocket call, from mount, from a
\* reconnect timer or from a send-failure reconnect, at most one socket is
\* live (CONNECTING or OPEN).
NoDoubleSockets == Cardinality(Live) <= 1

\* C3 (teardown is final): once beforeUnmount has run, no new WebSocket is
\* constructed and connectionState stays 'disconnected'.
TeardownIsFinal ==
    pc = "unmounted" =>
        /\ connectionState = "disconnected"
        /\ NumConstructed = socketsAtUnmount

\* C4 (permanent closure): a close event with code 4001, 4004, 403 or 401
\* leaves connectionState 'disconnected', schedules no reconnect, leaves
\* reconnectAttempts unchanged and appends exactly one system entry, whatever
\* reconnectAttempts and the completed flag are.
PermanentClosure ==
    [][ (last'.op = "onclose" /\ last'.code \in {4001, 4004, 403, 401}) =>
            /\ connectionState' = "disconnected"
            /\ timers' = timers
            /\ reconnectAttempts' = reconnectAttempts
            /\ AppendedOne("system") ]_vars

PermanentClosureWitness ==
    /\ last.op = "onclose"
    /\ last.code = 403
    /\ reconnectAttempts = maxReconnectAttempts
    /\ connectionState = "disconnected"
    /\ LastEntry = Entry("system", MsgClosedByServer)

\* C5 (retry step): a close with a non-permanent code, completed false and
\* reconnectAttempts < maxReconnectAttempts adds exactly 1 to reconnectAttempts
\* and makes connectionState 'reconnecting'; the state stays 'reconnecting'
\* while the reconnect timer is pending, and leaves it only when the timer
\* fires, for 'connecting' with exactly one new socket; every attemptReconnect
\* call adds exactly 1.
RetryStep ==
    [][ websocket_url = "valid" =>
          /\ (/\ last'.op = "onclose"
              /\ last'.code \notin PermanentCodes
              /\ ~conversationCompleted
              /\ reconnectAttempts < maxReconnectAttempts) =>
                 /\ reconnectAttempts' = reconnectAttempts + 1
                 /\ connectionState' = "reconnecting"
                 /\ Len(timers') = Len(timers) + 1
          /\ (Len(timers') > Len(timers)) => reconnectAttempts' = reconnectAttempts + 1
          /\ (timers' # <<>>) => connectionState' = "reconnecting"
          /\ (connectionState = "reconnecting" /\ connectionState' # "reconnecting") =>
                 /\ last'.op = "reconnectTimer"
                 /\ connectionState' = "connecting"
                 /\ NumConstructed' = NumConstructed + 1 ]_vars

ClaimedDelay(n) == IF n = 1 THEN 2000 ELSE IF n = 2 THEN 4000 ELSE IF n = 3 THEN 6000 ELSE 8000

\* C7 (backoff): every reconnect timer was scheduled with the delay
\* min(2000 * n, 8000) ms for the value n >= 1 of reconnectAttempts that
\* attemptReconnect saw, and the delay is non-decreasing in n.
BackoffLinearCapped ==
    \A i \in 1..Len(timers) :
        /\ timers[i].n >= 1
        /\ timers[i].delay = ClaimedDelay(timers[i].n)
        /\ \A j \in 1..Len(timers) :
              timers[i].n <= timers[j].n => timers[i].delay <= timers[j].delay

BackoffWitness ==
    \E i, j \in 1..Len(timers) :
        /\ timers[i].n = maxReconnectAttempts /\ timers[i].delay = 6000
        /\ timers[j].n = maxReconnectAttempts + 1 /\ timers[j].delay = 8000

\* C8 (send while not connected): handleSendMessage with non-blank input,
\* completed false and the socket not connected/open appends the user entry and
\* a system 'no connection' entry, sends nothing and triggers a reconnect
\* attempt.
SendWhileNotConnected ==
    [][ (/\ last'.op = "handleSendMessage"
         /\ Trim(last'.arg) # <<>>
         /\ ~conversationCompleted
         /\ ~(/\ connectionState = "connected"
               /\ ws # 0
               /\ readyState[IF ws = 0 THEN 1 ELSE ws] = "OPEN")) =>
            /\ messages' = messages \o << Entry("user", Trim(last'.arg)),
                                          Entry("system", MsgNoConnRetry) >>
            /\ sent' = sent
            /\ reconnectAttempts' = reconnectAttempts + 1
            /\ Len(timers') = Len(timers) + 1
            /\ connectionState' = "reconnecting" ]_vars

SendWhileNotConnectedWitness ==
    /\ last.op = "handleSendMessage"
    /\ Trim(last.arg) # <<>>
    /\ ~conversationCompleted
    /\ connectionState = "reconnecting"
    /\ reconnectAttempts = last.n0 + 1
    /\ sent = <<>>
    /\ LastEntry = Entry("system", MsgNoConnRetry)
    /\ ws # 0 /\ readyState[IF ws = 0 THEN 1 ELSE ws] = "CLOSING"

\* C9: reconnectAttempts decreases only in the socket's open handler, and
\* right after every open event it is 0.
ResetOnlyOnOpen ==
    [][ /\ (reconnectAttempts' < reconnectAttempts) => last'.op = "onopen"
        /\ (last'.op = "onopen") => reconnectAttempts' = 0 ]_vars

ResetOnlyOnOpenWitness ==
    /\ last.op = "onopen"
    /\ last.n0 = 2
    /\ reconnectAttempts = 0
    /\ connectionState = "connected"

----------------------------------------------------------------------------
(* Properties of the choice ChatWidgets, checked under SpecC *)

\* C1 (terminal lock): once an agent_response with is_complete = true has been
\* handled, no later handleSendMessage or sendSelection calls ws.send: no frame
\* handed to ws.send was sent after the completing frame was handled.
TerminalLock == \A i \in 1..Len(sent) : ~sent[i].afterComplete

\* C10 (replay suppression): handling an agent_response whose
\* data.is_current_state is true appends no transcript entry; with
\* is_current_state false or absent exactly one agent entry, carrying the
\* frame's content, is appended; in both cases the answer mode is replaced by
\* the frame's (no options meaning the empty list) and the selections are cleared.
ReplaySuppression ==
    [][ (last'.op = "onmessage" /\ last'.arg.json /\ last'.arg.type = "agent_response")
        => /\ IF last'.arg.data.is_current_state = "true"
              THEN messages' = messages
              ELSE /\ AppendedOne("agent")
                   /\ messages'[Len(messages')].content = last'.arg.content
           /\ currentAnswerType' = IF last'.arg.data.answerType = UNDEF THEN NULL
                                   ELSE last'.arg.data.answerType
           /\ currentOptions' = IF last'.arg.data.options = None THEN <<>>
                                ELSE last'.arg.data.options[1]
           /\ selectedSingleChoice' = NULL
           /\ selectedMultipleChoices' = <<>> ]_vars

\* a replayed single-choice question arrived while a selection was pending and
\* an earlier entry was in the transcript
ReplaySuppressionWitness ==
    /\ last.op = "onmessage"
    /\ last.arg.type = "agent_response"
    /\ last.arg.data.is_current_state = "true"
    /\ last.sel0
    /\ messages # <<>>
    /\ currentAnswerType = "single_choice"
    /\ currentOptions = <<OptYes, OptNo>>
    /\ selectedSingleChoice = NULL
    /\ selectedMultipleChoices = <<>>

\* C11 (completion): handling an agent_response with data.is_complete true
\* sets conversationCompleted and emits 'conversation-complete' with
\* data.summary, and conversationCompleted never goes back to false.
Completion ==
    [][ /\ (/\ last'.op = "onmessage"
            /\ last'.arg.json
            /\ last'.arg.type = "agent_response"
            /\ last'.arg.data.is_complete = "true")
           => /\ conversationCompleted'
              /\ \E i \in 1..Len(last'.emits) :
                    last'.emits[i] = [name |-> "conversation-complete",
                                      payload |-> last'.arg.data.summary]
        /\ conversationCompleted => conversationCompleted' ]_vars

\* the content the claim gives for a multiple-choice selection: the choices in
\* selection order, 'comment' replaced by the trimmed comment or left out when
\* that is blank, joined with ', '
RECURSIVE ExpectedChoices(_, _)
ExpectedChoices(selected, comment) ==
    IF selected = <<>> THEN <<>>
    ELSE IF Head(selected) # <<"comment">>
    THEN <<Head(selected)>> \o ExpectedChoices(Tail(selected), comment)
    ELSE IF \A i \in 1..Len(comment) : comment[i] = " "
    THEN ExpectedChoices(Tail(selected), comment)
    ELSE <<TrimEnd(TrimStart(comment))>> \o ExpectedChoices(Tail(selected), comment)

RECURSIVE CommaJoined(_)
CommaJoined(parts) ==
    IF parts = <<>> THEN <<>>
    ELSE IF Len(parts) = 1 THEN parts[1]
    ELSE parts[1] \o <<",", " ">> \o CommaJoined(Tail(parts))

\* C12 (multi-choice encoding): sendSelection in multiple_choice mode of the
\* choice+metrics widget computes the selected options joined in selection
\* order with ', ', 'comment' replaced by the trimmed commentText when that is
\* non-empty and dropped when it is empty; that content is the user entry
\* appended and the content of the frame sent.
MultiChoiceEncoding ==
    [][ (/\ last'.op = "sendSelection"
         /\ variant = "metrics"
         /\ currentAnswerType = "multiple_choice"
         /\ selectedMultipleChoices # <<>>)
        => LET content == CommaJoined(ExpectedChoices(selectedMultipleChoices, commentText))
           IN  /\ last'.arg = content
               /\ content # <<>> =>
                     /\ AppendedOne("user")
                     /\ messages'[Len(messages')].content = content
               /\ sent' # sent =>
                     /\ Len(sent') = Len(sent) + 1
                     /\ sent'[Len(sent')].content = content ]_vars

\* {A, comment} with the comment ' hello ' was sent as 'A, hello'
MultiChoiceEncodingWitness ==
    /\ variant = "metrics"
    /\ last.op = "sendSelection"
    /\ last.arg = <<"A", ",", " ", "hello">>
    /\ sent # <<>>
    /\ sent[Len(sent)].content = <<"A", ",", " ", "hello">>
    /\ LastEntry = [role |-> "user", content |-> <<"A", ",", " ", "hello">>]

----------------------------------------------------------------------------
(* Further properties of the reconnecting ChatWidget, checked under SpecR *)

\* C13 (stale connections): once a newer socket has been created and opened, a
\* message delivered by an older socket is not applied to the transcript, the
\* answer mode or the completed flag.
StaleFramesDropped ==
    [][ (/\ last'.op = "onmessage"
         /\ \E s2 \in Sockets : s2 > last'.sock /\ readyState[s2] = "OPEN")
        => UNCHANGED <<messages, conversationCompleted, currentAnswerType,
                       currentOptions>> ]_vars

\* C17 (initial state): right after the widget is mounted with a non-empty
\* websocket_url, before any socket event, messages is empty, userInput is '',
\* conversationCompleted is false and connectionState is 'disconnected'.
MountedInitialState ==
    (last.op = "mounted" /\ websocket_url # "")
        => /\ messages = <<>>
           /\ userInput = <<>>
           /\ ~conversationCompleted
           /\ connectionState = "disconnected"

\* content is text without its leading and trailing white space, and is not empty
IsTrimOf(content, text) ==
    \E i, j \in 1..Len(text) :
        /\ i <= j
        /\ content = SubSeq(text, i, j)
        /\ text[i] # " " /\ text[j] # " "
        /\ \A k \in 1..Len(text) : (k < i \/ k > j) => text[k] = " "

\* C18 (successful send): with connectionState 'connected', the socket open,
\* completed false and a non-blank input, handleSendMessage performs exactly
\* one ws.send whose content is the trimmed input, appends exactly one user
\* entry with that content and leaves userInput empty; every frame ever sent
\* has non-empty content.
SuccessfulSend ==
    [][ /\ (/\ last'.op = "handleSendMessage"
            /\ connectionState = "connected"
            /\ ws # 0
            /\ readyState[ws] = "OPEN"
            /\ ~conversationCompleted
            /\ \E k \in 1..Len(last'.arg) : last'.arg[k] # " ")
           => /\ Len(sent') = Len(sent) + 1
              /\ SubSeq(sent', 1, Len(sent)) = sent
              /\ IsTrimOf(sent'[Len(sent')].content, last'.arg)
              /\ AppendedOne("user")
              /\ messages'[Len(messages')].content = sent'[Len(sent')].content
              /\ userInput' = <<>>
        /\ \A i \in 1..Len(sent') : sent'[i].content # <<>> ]_vars

\* ' ok ' was sent as 'ok' on the open socket
SuccessfulSendWitness ==
    /\ last.op = "handleSendMessage"
    /\ last.arg = <<" ", "ok", " ">>
    /\ last.sock # 0
    /\ sent # <<>>
    /\ sent[Len(sent)].content = <<"ok">>
    /\ LastEntry = [role |-> "user", content |-> <<"ok">>]
    /\ userInput = <<>>

\* C19 (ui_config pass-through): handling a ui_config message, in any
\* connection phase, emits 'ui-config' with the received message unmodified and
\* leaves the transcript, connectionState, answer mode, completed flag and
\* reconnectAttempts unchanged.
UiConfigPassThrough ==
    [][ (last'.op = "onmessage" /\ last'.arg.json /\ last'.arg.type = "ui_config")
        => /\ last'.emits = << [name |-> "ui-config", payload |-> last'.arg] >>
           /\ UNCHANGED <<messages, connectionState, currentAnswerType, currentOptions,
                          conversationCompleted, reconnectAttempts>> ]_vars

\* a ui_config message was handled while the widget was reconnecting, with a
\* transcript and a retry behind it
UiConfigPassThroughWitness ==
    /\ last.op = "onmessage"
    /\ last.arg.type = "ui_config"
    /\ connectionState = "reconnecting"
    /\ reconnectAttempts > 0
    /\ messages # <<>>
    /\ Len(last.emits) = 1

\* C20 (inbound error and user_message frames): in any connection phase an
\* error frame appends exactly one system entry ('Error: ' and its content)
\* and a user_message frame exactly one user entry (its content), and neither
\* changes connectionState, the completed flag, the answer mode or
\* reconnectAttempts.
ErrorAndEchoFrames ==
    [][ (/\ last'.op = "onmessage"
         /\ last'.arg.json
         /\ last'.arg.type \in {"error", "user_message"})
        => /\ IF last'.arg.type = "error"
              THEN /\ AppendedOne("system")
                   /\ messages'[Len(messages')].content = <<"Error: ">> \o last'.arg.content
              ELSE /\ AppendedOne("user")
                   /\ messages'[Len(messages')].content = last'.arg.content
           /\ UNCHANGED <<connectionState, conversationCompleted, currentAnswerType,
                          currentOptions, reconnectAttempts>> ]_vars

\* an error frame was handled outside the 'connected' phase, after a retry,
\* and appended its entry after earlier ones
ErrorAndEchoFramesWitness ==
    /\ last.op = "onmessage"
    /\ last.arg.type = "error"
    /\ connectionState # "connected"
    /\ reconnectAttempts > 0
    /\ Len(messages) >= 2
    /\ LastEntry = [role |-> "system", content |-> <<"Error: ", "Hi">>]

----------------------------------------------------------------------------
(* Properties of the chatbot ChatWidget, checked under SpecB *)

\* the previous transcript is a prefix of the new one
IsPrefixStep ==
    /\ Len(messages') >= Len(messages)
    /\ SubSeq(messages', 1, Len(messages)) = messages

\* C14 (transcript is append-only), as claimed: after any operation of any
\* widget variant the previous value of messages is a prefix of the new value.
AppendOnly == [][IsPrefixStep]_vars

\* C14 as amended: after any operation other than clearChat the previous value
\* of messages is a prefix of the new value; clearChat leaves the transcript
\* empty.
AppendOnlyExceptClearChat ==
    [][ IF last'.op = "clearChat" THEN messages' = <<>> ELSE IsPrefixStep ]_vars

\* clearChat emptied a transcript of two entries or more
AppendOnlyWitness ==
    /\ last.op = "clearChat"
    /\ last.len0 >= 2
    /\ messages = <<>>

\* C15 (undecodable input is dropped): a frame that is not valid JSON, or whose
\* type is not one of the recognised discriminators, changes no widget state
\* (transcript, phase, answer mode, completed, reconnectAttempts) and raises no
\* error out of the message handler.
UndecodableDropped ==
    [][ (/\ last'.op = "onmessage"
         /\ \/ ~last'.arg.json
            \/ last'.arg.type \notin {"agent_response", "user_message", "ui_config", "error"})
        => /\ UNCHANGED <<messages, connectionState, isConnected, currentAnswerType,
                          currentOptions, conversationCompleted, reconnectAttempts>>
           /\ ~last'.threw ]_vars

----------------------------------------------------------------------------
(* Properties of the choice+metrics ChatWidget with its document listeners, *)
(* checked under SpecM *)

\* C21 (listener release): once the choice+metrics widget is unmounted, no
\* document mousemove or visibilitychange event changes its userMetrics
\* counters.
ListenersReleased == [][pc = "unmounted" => userMetrics' = userMetrics]_vars

----------------------------------------------------------------------------
(* Properties of every widget *)

\* the operations that pass a frame to ws.send
SendOps == {"sendMessage", "handleButtonClick", "handleSendMessage", "sendSelection"}

\* C22 (no operation throws): no handler is left by an exception, and a send
\* operation that reports 'message-sent' has passed its frame to an open
\* socket, which takes it.
NoOperationThrows ==
    [][ /\ ~last'.threw
        /\ (last'.op \in SendOps /\ last'.emits # <<>>) => Len(sent') = Len(sent) + 1 ]_vars

\* every piece of the text is a space
IsBlank(text) == \A k \in 1..Len(text) : text[k] = " "

\* C26 (input buffer), as claimed: after every handleSendMessage call, sent,
\* failed or rejected, userInput is the empty string.
InputBufferCleared == last.op = "handleSendMessage" => userInput = <<>>

\* C26 as amended: handleSendMessage leaves userInput empty when the
\* submission was sent, failed for lack of connection or was refused because
\* the conversation is completed; a submission refused because the input is
\* empty or only white space leaves userInput as it was.
InputBufferClearedUnlessBlank ==
    [][ last'.op = "handleSendMessage" =>
          userInput' = IF ~(disabled \/ conversationCompleted) /\ IsBlank(last'.arg)
                       THEN last'.arg
                       ELSE <<>> ]_vars

\* a submission of one space was refused and the space is still in the buffer
InputBufferWitness ==
    /\ last.op = "handleSendMessage"
    /\ last.arg = <<" ">>
    /\ ~(disabled \/ conversationCompleted)
    /\ userInput = <<" ">>
    /\ Len(messages) = last.len0

\* the selection yields no content: no choice mode, a single choice with
\* nothing selected, or a multiple choice whose emitted tokens are empty
EmptySelection ==
    \/ currentAnswerType \notin {"single_choice", "multiple_choice"}
    \/ currentAnswerType = "single_choice" /\ selectedSingleChoice = NULL
    \/ /\ currentAnswerType = "multiple_choice"
       /\ ExpectedChoices(selectedMultipleChoices, commentText) = <<>>

\* C27 (rejected submission is a no-op): a submit whose computed content is
\* empty (handleSendMessage of an open conversation with a blank input,
\* sendSelection with an empty selection) appends no transcript entry, sends
\* nothing, schedules no reconnect and leaves connectionState, the socket, the
\* answer mode, the options and the selections unchanged.
RejectedSubmitNoOp ==
    [][ (\/ /\ last'.op = "handleSendMessage"
            /\ ~(disabled \/ conversationCompleted)
            /\ IsBlank(last'.arg)
         \/ /\ last'.op = "sendSelection"
            /\ EmptySelection)
        => UNCHANGED <<messages, sent, timers, reconnectAttempts, connectionState, ws,
                       readyState, choiceVars, conversationCompleted>> ]_vars

\* the choice+metrics widget refused the selection {comment} with a blank
\* comment, and the selection is still there
RejectedSubmitWitness ==
    /\ variant = "metrics"
    /\ last.op = "sendSelection"
    /\ last.arg = <<>>
    /\ currentAnswerType = "multiple_choice"
    /\ selectedMultipleChoices = <<Comment>>
    /\ commentText = <<" ">>
    /\ Len(messages) = last.len0
    /\ last.len0 > 0

\* the selection as the user made it: the option of a single choice, the
\* tokens of a multiple choice joined with ', '
SelectionMade ==
    IF currentAnswerType = "single_choice" THEN selectedSingleChoice
    ELSE CommaJoined(ExpectedChoices(selectedMultipleChoices, commentText))

\* C28 (choice submission reset): a sendSelection call with a valid selection
\* appends one user entry equal to the selection, sends a frame with that
\* content when the widget is connected over an open socket (and no frame
\* otherwise), and leaves the answer mode free text: currentAnswerType null,
\* currentOptions empty, selectedSingleChoice null, selectedMultipleChoices
\* empty, commentText empty.
ChoiceSubmissionReset ==
    [][ (last'.op = "sendSelection" /\ ~EmptySelection)
        => /\ AppendedOne("user")
           /\ messages'[Len(messages')].content = SelectionMade
           /\ IF connectionState = "connected" /\ ws # 0 /\ readyState[ws] = "OPEN"
              THEN /\ Len(sent') = Len(sent) + 1
                   /\ SubSeq(sent', 1, Len(sent)) = sent
                   /\ sent'[Len(sent')].content = SelectionMade
              ELSE sent' = sent
           /\ currentAnswerType' = NULL
           /\ currentOptions' = <<>>
           /\ selectedSingleChoice' = NULL
           /\ selectedMultipleChoices' = <<>>
           /\ commentText' = <<>> ]_vars

\* {A, comment} with the comment ' hello ' was submitted and sent, and the
\* widget is back in free-text mode
ChoiceSubmissionResetWitness ==
    /\ variant = "metrics"
    /\ last.op = "sendSelection"
    /\ last.arg = <<"A", ",", " ", "hello">>
    /\ last.emits # <<>>
    /\ LastEntry.role = "user"
    /\ currentAnswerType = NULL
    /\ currentOptions = <<>>
    /\ selectedMultipleChoices = <<>>
    /\ commentText = <<>>

\* the same in test_client for the single choice 'No'
SingleChoiceResetWitness ==
    /\ variant = "test_client"
    /\ last.op = "sendSelection"
    /\ last.arg = OptNo
    /\ last.emits # <<>>
    /\ currentAnswerType = NULL
    /\ selectedSingleChoice = NULL

\* C29 (choice submission without connection): a sendSelection call with a
\* valid selection while the widget is not connected over an open socket
\* appends, after the user entry, a system entry that reports the missing
\* connection.
ChoiceWithoutConnection ==
    [][ (/\ last'.op = "sendSelection"
         /\ ~EmptySelection
         /\ ~(connectionState = "connected" /\ ws # 0 /\ readyState[ws] = "OPEN"))
        => /\ Len(messages') = Len(messages) + 2
           /\ messages'[Len(messages) + 1].role = "user"
           /\ messages'[Len(messages) + 2].role = "system" ]_vars

\* C30 (answer mode replacement): every handled agent_response replaces the
\* answer mode: currentAnswerType becomes the frame's answerType (free text
\* when it is absent), currentOptions the frame's options (empty when absent),
\* and the selections and the comment are emptied, whatever they were; an
\* agent_response with empty data on an empty transcript leaves the
\* transcript [agent entry] and free-text mode.
AnswerModeReplacement ==
    [][ (/\ last'.op = "onmessage"
         /\ last'.arg.json
         /\ last'.arg.type = "agent_response")
        => LET d == last'.arg.data
           IN  /\ currentAnswerType' = (IF d.answerType = UNDEF THEN NULL ELSE d.answerType)
               /\ currentOptions' = (IF d.options = <<>> THEN <<>> ELSE d.options[1])
               /\ selectedSingleChoice' = NULL
               /\ selectedMultipleChoices' = <<>>
               /\ commentText' = <<>>
               /\ (messages = <<>> /\ d = NoData)
                     => /\ messages' = <<[role |-> "agent", content |-> last'.arg.content]>>
                        /\ currentAnswerType' = NULL ]_vars

\* an agent_response with empty data arrived while a choice was selected, and
\* the widget is in free-text mode with nothing selected
AnswerModeReplacementWitness ==
    /\ last.op = "onmessage"
    /\ last.arg = Frame("agent_response", TextHi, NoData)
    /\ last.sel0
    /\ currentAnswerType = NULL
    /\ currentOptions = <<>>
    /\ selectedSingleChoice = NULL
    /\ selectedMultipleChoices = <<>>

\* C25 (closure after completion): once conversationCompleted is true, the
\* close handler of a socket that can still close takes no action on a
\* non-permanent code, whatever reconnectAttempts is: it schedules no
\* reconnect and appends no transcript entry.
ClosureAfterCompletion ==
    (conversationCompleted /\ (\E s \in Sockets : readyState[s] \in {"CONNECTING", "OPEN", "CLOSING"}))
        => \A code \in CloseCodes \ PermanentCodes : closeBranch(code) = "none"

\* C24 (automatic reconnection succeeds): when a socket that had opened closes
\* with a non-permanent code while the conversation is not completed, and the
\* server accepts the connection attempts that follow, connectionState
\* becomes 'connected' with reconnectAttempts = 0, unless the widget is
\* unmounted first.  The sockets the pending timers will construct are within
\* MaxSockets.
ReconnectionSucceeds ==
    (/\ last.op = "onclose"
     /\ last.code \notin PermanentCodes
     /\ ~conversationCompleted
     /\ pc = "mounted"
     /\ NumConstructed + Len(timers) <= MaxSockets)
    ~> (\/ connectionState = "connected" /\ reconnectAttempts = 0
        \/ pc = "unmounted")

\* the second socket opened after the close of the first had scheduled the
\* only retry: no send failed and no other socket was constructed
ReconnectionSucceedsWitness ==
    /\ last.op = "onopen"
    /\ last.sock = 2
    /\ last.n0 = 1
    /\ readyState[1] = "CLOSED"
    /\ NumConstructed = 2
    /\ \A i \in 1..Len(messages) : messages[i].content # MsgNoConnRetry
    /\ pc = "mounted"
    /\ connectionState = "connected"
    /\ reconnectAttempts = 0

\* C23 (automatic reconnection is bounded): when every connection attempt ends
\* in an abnormal close, the widget stops scheduling reconnects: from some
\* point on no reconnect timer is pending.
ReconnectionBounded == <>[](timers = <<>>)

----------------------------------------------------------------------------
(* Further properties of every widget *)

\* C31 (same endpoint on retry): every socket constructed during one mounted
\* session, those of the automatic reconnects included, is constructed with
\* the URL of the first one.
SameEndpoint == Cardinality(openedTo) <= 1

\* C32 (construction failure): when new WebSocket throws inside
\* connectWebSocket, called by mounted or by a reconnect timer, the call
\* returns normally with connectionState 'disconnected', exactly one system
\* entry appended, no socket constructed and no reconnect scheduled.
ConstructionFailure ==
    [][ (/\ last'.op \in {"mounted", "reconnectTimer"}
         /\ variant \in {"reconnecting", "test_client", "metrics"}
         /\ websocket_url = "invalid")
        => /\ ~last'.threw
           /\ connectionState' = "disconnected"
           /\ AppendedOne("system")
           /\ ws' = ws
           /\ \A s \in Sockets : readyState'[s] = "CONNECTING" => readyState[s] = "CONNECTING"
           /\ reconnectAttempts' = reconnectAttempts
           /\ Len(timers') = Len(timers) - (IF last'.op = "reconnectTimer" THEN 1 ELSE 0) ]_vars

\* the reconnecting widget was mounted with a URL that new WebSocket rejects
ConstructionFailureWitness ==
    /\ variant = "reconnecting"
    /\ last.op = "mounted"
    /\ websocket_url = "invalid"
    /\ connectionState = "disconnected"
    /\ messages = <<Entry("system", MsgConnError)>>
    /\ ws = 0
    /\ timers = <<>>

\* C33 (pointer sampling): while the widget is mounted, a document mousemove
\* event increments exactly one of mouseInsideCount and mouseOutsideCount by
\* exactly 1, the first when the target is inside the widget and the second
\* when it is outside, and leaves the other one and the visibility counters
\* unchanged.
PointerSampling ==
    [][ (last'.op = "mousemove" /\ pc = "mounted")
        => LET dIn  == userMetrics'.mouseInsideCount - userMetrics.mouseInsideCount
               dOut == userMetrics'.mouseOutsideCount - userMetrics.mouseOutsideCount
           IN  /\ <<dIn, dOut>> = (IF last'.arg = <<"inside">> THEN <<1, 0>> ELSE <<0, 1>>)
               /\ userMetrics'.appHiddenCount = userMetrics.appHiddenCount
               /\ userMetrics'.appVisibleCount = userMetrics.appVisibleCount ]_vars

\* the pointer moved over the mounted widget once
PointerSamplingWitness ==
    /\ pc = "mounted"
    /\ last.op = "mousemove"
    /\ last.arg = <<"inside">>
    /\ userMetrics.mouseInsideCount = 1
    /\ userMetrics.mouseOutsideCount = 0

\* C34 (engagement counters are monotone): no step of a mounted session lowers
\* or resets mouseOutsideCount, mouseInsideCount, appHiddenCount or
\* appVisibleCount, and the metrics of a frame that is sent are the counters
\* at the moment of the send.
CountersMonotone ==
    [][ /\ userMetrics'.mouseOutsideCount >= userMetrics.mouseOutsideCount
        /\ userMetrics'.mouseInsideCount >= userMetrics.mouseInsideCount
        /\ userMetrics'.appHiddenCount >= userMetrics.appHiddenCount
        /\ userMetrics'.appVisibleCount >= userMetrics.appVisibleCount
        /\ Len(sent') > Len(sent) =>
              /\ Len(sent') = Len(sent) + 1
              /\ sent'[Len(sent')].metrics = <<userMetrics>>
              /\ userMetrics' = userMetrics ]_vars

\* a frame was sent after the page had been hidden once, and it carries the count
CountersMonotoneWitness ==
    /\ pc = "mounted"
    /\ last.op \in {"handleSendMessage", "sendSelection"}
    /\ sent # <<>>
    /\ userMetrics.appHiddenCount = 1
    /\ sent[Len(sent)].metrics = <<userMetrics>>

\* C35 (arrival order): the entry an inbound frame produces is appended at the
\* end of the transcript in the step in which the frame arrives, one frame
\* one entry at most, and no step moves or removes an entry that is there: the
\* entries of the frames of a connection stand in the order of arrival.
ArrivalOrder ==
    [][ /\ IsPrefixStep
        /\ last'.op = "onmessage" =>
              \/ messages' = messages
              \/ /\ Len(messages') = Len(messages) + 1
                 /\ last'.arg.json
                 /\ messages'[Len(messages')].content \in
                        {last'.arg.content, <<"Error: ">> \o last'.arg.content}
                 /\ messages'[Len(messages')].role =
                        (IF last'.arg.type = "agent_response" THEN "agent"
                         ELSE IF last'.arg.type = "user_message" THEN "user"
                         ELSE "system") ]_vars

\* an agent_response arrived and then a user_message, and their entries stand
\* in that order
ArrivalOrderWitness ==
    /\ last.op = "onmessage"
    /\ last.arg.type = "user_message"
    /\ messages = <<Entry("agent", TextHi), Entry("user", TextHi)>>

\* C36 (retry ceiling as an invariant): in every reachable state of the
\* reconnecting widget reconnectAttempts is at most maxReconnectAttempts.
RetryCeiling == reconnectAttempts <= maxReconnectAttempts

\* C37 (single pending retry): at any time at most one reconnect timer of
\* attemptReconnect is pending.
SinglePendingRetry == Len(timers) <= 1

\* C38 (phase matches socket): whenever connectionState is 'connected', or
\* isConnected is true, this.ws is a socket and that socket is open.
PhaseMatchesSocket ==
    (connectionState = "connected" \/ isConnected)
        => /\ ws # 0
           /\ readyState[IF ws = 0 THEN 1 ELSE ws] = "OPEN"

\* C39 (stale lifecycle events): an open, close or error event of a socket
\* that is not the current this.ws changes neither connectionState nor the
\* transcript and schedules no reconnect.
StaleEventsIgnored ==
    [][ (last'.op \in {"onopen", "onclose", "onerror"} /\ last'.sock # ws)
        => UNCHANGED <<connectionState, messages, timers, reconnectAttempts>> ]_vars

\* C40 (button/submit agreement): in the choice+metrics widget
\* hasValidSelection is true exactly when sendSelection, called in the same
\* state, computes a content that is not empty.
ButtonSubmitAgreement ==
    variant = "metrics" => (hasValidSelection <=> selectionContentCM # <<>>)

====
